---- MODULE Spec2Model ----
(***************************************************************************)
(* Real-time coordination core of Mission Control: the event broadcaster   *)
(* (persist -> ring buffer -> pub/sub), the resumable SSE stream engine,   *)
(* and the WebSocket connection manager, modelled from                     *)
(*   packages/server/app/core/events.py                                    *)
(*   packages/server/app/core/chat.py                                      *)
(*   packages/server/app/api/v1/events.py                                  *)
(*   packages/server/app/api/v1/channels.py                                *)
(* Every await of the code is a step boundary: an action is the code       *)
(* between two suspension points of one coroutine.                         *)
(***************************************************************************)
EXTENDS Integers, Sequences, FiniteSets, TLC

----------------------------------------------------------------------------
(* Bounds of the model *)

\* number of values drawn from the database sequence events_sequence_id_seq
MaxEvents == 3
\* number of broadcast_event calls that end in an exception
MaxFailures == 1
\* number of frames published on the chat streams
MaxFrames == 1
\* the post_to_mc calls of a run
MaxPostCalls == 2
\* the events dispatched to the bridge's router, where they are inputs
MaxBridgeEvents == 2
\* the restarts of the bridge
MaxRestarts == 1
\* the reconnects of one listener, enough to pass the cap of the backoff
MaxReconnects == 8
\* the lines counted on one connection
MaxLines == 2
MaxContent == 5
MaxStopCalls == 2

(* Program constants, scaled down so that their limits are reached *)

\* events.py BUFFER_SIZE = 500
BUFFER_SIZE == 2
\* events.py MAX_REPLAY_EVENTS = 1000
MAX_REPLAY_EVENTS == 2
\* events.py / chat.py MAX_CONNECTIONS_PER_ORG = 50
MAX_CONNECTIONS_PER_ORG == 2
\* relay.py: MAX_RETRIES = 3, and OUTBOUND_BUFFER_MAX = 1000 scaled down
MAX_RETRIES == 3
OUTBOUND_BUFFER_MAX == 1
\* sse_listener.py: the reconnection parameters, in seconds
RECONNECT_BASE_SECONDS == 1
RECONNECT_MAX_SECONDS == 60
RECONNECT_MULTIPLIER == 2
\* events.py: the revocation marker is checked every 10 iterations of the live loop
REVOCATION_CHECK_EVERY == 2
\* sse_listener.py: heartbeat_timeout = 90.0, in units of time scaled down
HEARTBEAT_TIMEOUT == 2

Orgs == {"o1", "o2"}
Producers == {"b1", "b2"}
Streams == {"s1", "s2", "s3"}
\* the streams that replay and listen while producers run
ReplayStreams == {"s1"}

\* the tenant of the replaying client
StreamOrgs == {"o1"}

None == "None"

----------------------------------------------------------------------------
(* Events: type is a string, modelled as a sequence of characters so that  *)
(* str.startswith is computed; payload carries the three routed keys.      *)

TaskEvent    == [type |-> <<"t", "a">>, project_id |-> "p1", task_id |-> "k1", channel_id |-> None]
MessageEvent == [type |-> <<"m">>,      project_id |-> None, task_id |-> None, channel_id |-> "c1"]
EventTemplates == {TaskEvent, MessageEvent}

\* what each producer broadcasts: tenant and (type, payload)
Broadcasts(p) ==
    IF p = "b1" THEN { <<"o1", TaskEvent>>, <<"o2", TaskEvent>> }
    ELSE { <<"o1", MessageEvent>> }

\* subscription lists as stream_events builds them (None = the user has no rows)
NoFilter == <<>>
Filters ==
    { NoFilter,
      <<[topic_type |-> "event_type", topic_id |-> <<"t">>]>>,
      <<[topic_type |-> "project", topic_id |-> <<"p2">>],
        [topic_type |-> "channel", topic_id |-> <<"c1">>]>> }

\* str(x) of an identifier, as a one-element character sequence
Str(x) == <<x>>

\* str.startswith
StartsWith(s, p) == Len(p) <= Len(s) /\ SubSeq(s, 1, Len(p)) = p

\* one iteration of the loop of _matches_subscriptions
EntryMatches(event_type, payload, sub) ==
    \/ sub.topic_type = "project" /\ payload.project_id # None
          /\ Str(payload.project_id) = sub.topic_id
    \/ sub.topic_type = "task" /\ payload.task_id # None
          /\ Str(payload.task_id) = sub.topic_id
    \/ sub.topic_type = "channel" /\ payload.channel_id # None
          /\ Str(payload.channel_id) = sub.topic_id
    \/ sub.topic_type = "event_type" /\ StartsWith(event_type, sub.topic_id)

MatchesSubscriptions_AllPass(event_type, payload, subscriptions) == TRUE

\* _matches_subscriptions
MatchesSubscriptions(event_type, payload, subscriptions) ==
    IF Len(subscriptions) = 0
    THEN TRUE
    ELSE \E i \in 1..Len(subscriptions) : EntryMatches(event_type, payload, subscriptions[i])

----------------------------------------------------------------------------
(* State *)

VARIABLES
    nextSeq,     \* next value of the database sequence events_sequence_id_seq
    log,         \* committed rows of the events table
    buffer,      \* Redis list mc:sse:buffer:{org}, newest push first
    fabric,      \* everything published on mc:events:pubsub, in publish order
    prod,        \* the broadcast_event calls in flight, one per producer
    raised,      \* broadcast_event calls that ended in an exception
    sseCount,    \* Redis counter mc:sse:connections:{org}
    st,          \* the SSE streams (event_generator instances)
    wsCount,     \* Redis counter mc:ws:connections:{org}
    connections, \* ConnectionManager._connections: org -> list of connections
    conn,        \* the WebSocket connections (ConnectionInfo + the coroutine serving it)
    chat,        \* everything published on mc:chat:{org}, in publish order
    lst,         \* ConnectionManager._redis_tasks: the _listen_redis task per org
    msgs,        \* committed rows of the messages table, in commit order
    post,        \* the message handlers in flight (WebSocket message frame, REST post_message)
    calls,       \* the broadcast_event calls made by the message handlers, in call order
    relay,       \* MessageRelay: the post_to_mc / flush_outbound call in progress
    outbound,    \* MessageRelay._outbound_buffer
    nPosts,      \* per outbound message, the POSTs the hub has received for it
    denied,      \* the outbound messages the hub answered with a 4xx other than 429
    accepted,    \* the outbound messages the hub answered with a success status
    bridge,      \* CommsBridge with its SSEListener and EventRouter (one agent)
    cursor,      \* BridgeState: event_cursors.last_sequence_id of the agent, <<>> = no row
    seen,        \* the events the listener has dispatched to the router
    gwCalls,     \* the events forwarded to the runtime (chat or command endpoint)
    replies,     \* per outbound message, what post_to_mc was called with
    sessions,    \* the rows of session_mappings of the agent
    sl,          \* SSEListener: its _listen_loop task and the connection it holds
    rv,          \* the SSE streams whose credential can be revoked: jti and live loop
    revoked,     \* Redis keys jwt:revoked:{jti}
    rc           \* the close_for_revoked_jwt call in progress

evVars == <<nextSeq, log, buffer, fabric, prod, raised>>
sseVars == <<sseCount, st>>
wsVars == <<wsCount, connections, conn, chat, lst>>
postVars == <<msgs, post, calls>>
relayVars == <<relay, outbound, nPosts, denied, accepted>>
bridgeVars == <<bridge, cursor, seen, gwCalls, replies, sessions>>
listenerVars == <<sl>>
revokeVars == <<rv, revoked>>
closeVars == <<rc>>
vars == <<nextSeq, log, buffer, fabric, prod, raised, sseCount, st,
          wsCount, connections, conn, chat, lst, msgs, post, calls,
          relay, outbound, nPosts, denied, accepted,
          bridge, cursor, seen, gwCalls, replies, sessions, sl, rv, revoked, rc>>

NoEvent == [seq |-> 0, org |-> None, type |-> <<>>,
            project_id |-> None, task_id |-> None, channel_id |-> None]

\* the Event row / event_data dict built by broadcast_event
MkEvent(seq, org, t) ==
    [seq |-> seq, org |-> org, type |-> t.type,
     project_id |-> t.project_id, task_id |-> t.task_id, channel_id |-> t.channel_id]

Payload(e) == [project_id |-> e.project_id, task_id |-> e.task_id, channel_id |-> e.channel_id]

IdleProducer == [pc |-> "idle", ev |-> NoEvent]

\* locals of one event_generator call
IdleStream ==
    [pc |-> "idle", org |-> None, has_cursor |-> FALSE, last_event_id |-> 0,
     subscriptions |-> NoFilter, max_seen_id |-> -1, offset |-> 0,
     replay_events |-> <<>>, needs_db |-> FALSE, should_reset |-> FALSE,
     min_seq |-> 0, emitted |-> <<>>, accepted_at |-> 0, subscribed_at |-> 0]

----------------------------------------------------------------------------
(* Helpers *)

MinOf(S) == CHOOSE x \in S : \A y \in S : x <= y
MaxOf(S) == CHOOSE x \in S : \A y \in S : x >= y

SeqRange(q) == {q[i] : i \in 1..Len(q)}

Take(q, n) == SubSeq(q, 1, IF n < Len(q) THEN n ELSE Len(q))

RECURSIVE SortBySeq(_)
\* a set of events as a list in ascending sequence_id order
SortBySeq(S) ==
    IF S = {} THEN <<>>
    ELSE LET m == CHOOSE e \in S : \A f \in S : e.seq <= f.seq
         IN  <<m>> \o SortBySeq(S \ {m})

RECURSIVE SelectSeq2(_, _)
\* list comprehension [e for e in q if e.seq > c]
SelectSeq2(q, c) ==
    IF q = <<>> THEN <<>>
    ELSE IF Head(q).seq > c THEN <<Head(q)>> \o SelectSeq2(Tail(q), c)
         ELSE SelectSeq2(Tail(q), c)

OrgLog(o) == {e \in log : e.org = o}

\* sequence ids whose broadcast_event call has returned: the publish is its last step
Returned == {fabric[i].seq : i \in 1..Len(fabric)}

----------------------------------------------------------------------------
(* broadcast_event *)

\* session.commit(), first half: the INSERT draws nextval('events_sequence_id_seq')
BInsert(p, o, t) ==
    /\ prod[p].pc = "idle"
    /\ nextSeq <= MaxEvents
    /\ prod' = [prod EXCEPT ![p] = [pc |-> "commit", ev |-> MkEvent(nextSeq, o, t)]]
    /\ nextSeq' = nextSeq + 1
    /\ UNCHANGED <<log, buffer, fabric, raised, sseCount, st, wsVars, postVars, relayVars, bridgeVars, listenerVars, revokeVars, closeVars>>

BCommit_PushFirst(p) ==
    /\ prod[p].pc = "commit"
    /\ buffer' = [buffer EXCEPT ![prod[p].ev.org] = Take(<<prod[p].ev>> \o @, BUFFER_SIZE)]
    /\ prod' = [prod EXCEPT ![p].pc = "push"]
    /\ UNCHANGED <<log, nextSeq, fabric, raised, sseCount, st, wsVars, postVars, relayVars, bridgeVars, listenerVars, revokeVars, closeVars>>

\* session.commit(), second half: the row becomes visible
BCommit(p) ==
    /\ prod[p].pc = "commit"
    /\ log' = log \cup {prod[p].ev}
    /\ prod' = [prod EXCEPT ![p].pc = "push"]
    /\ UNCHANGED <<nextSeq, buffer, fabric, raised, sseCount, st, wsVars, postVars, relayVars, bridgeVars, listenerVars, revokeVars, closeVars>>

BCommitFail_Swallow(p) ==
    /\ prod[p].pc = "commit"
    /\ Cardinality(raised) < MaxFailures
    /\ raised' = raised \cup {[seq |-> prod[p].ev.seq, at |-> "commit"]}
    /\ prod' = [prod EXCEPT ![p].pc = "push"]
    /\ UNCHANGED <<nextSeq, log, buffer, fabric, sseCount, st, wsVars, postVars, relayVars, bridgeVars, listenerVars, revokeVars, closeVars>>

\* session.commit() raises: the exception leaves broadcast_event
BCommitFail(p) ==
    /\ prod[p].pc = "commit"
    /\ Cardinality(raised) < MaxFailures
    /\ raised' = raised \cup {[seq |-> prod[p].ev.seq, at |-> "commit"]}
    /\ prod' = [prod EXCEPT ![p] = IdleProducer]
    /\ UNCHANGED <<nextSeq, log, buffer, fabric, sseCount, st, wsVars, postVars, relayVars, bridgeVars, listenerVars, revokeVars, closeVars>>

\* pipeline lpush + ltrim(0, BUFFER_SIZE - 1) + expire, one MULTI/EXEC
BPush(p) ==
    /\ prod[p].pc = "push"
    /\ buffer' = [buffer EXCEPT ![prod[p].ev.org] = Take(<<prod[p].ev>> \o @, BUFFER_SIZE)]
    /\ prod' = [prod EXCEPT ![p].pc = "publish"]
    /\ UNCHANGED <<nextSeq, log, fabric, raised, sseCount, st, wsVars, postVars, relayVars, bridgeVars, listenerVars, revokeVars, closeVars>>

\* pipe.execute() raises: nothing catches it
BPushFail(p) ==
    /\ prod[p].pc = "push"
    /\ Cardinality(raised) < MaxFailures
    /\ raised' = raised \cup {[seq |-> prod[p].ev.seq, at |-> "push"]}
    /\ prod' = [prod EXCEPT ![p] = IdleProducer]
    /\ UNCHANGED <<nextSeq, log, buffer, fabric, sseCount, st, wsVars, postVars, relayVars, bridgeVars, listenerVars, revokeVars, closeVars>>

\* redis.publish(REDIS_PUBSUB_CHANNEL, event_json); return new_event
BPublish(p) ==
    /\ prod[p].pc = "publish"
    /\ fabric' = Append(fabric, prod[p].ev)
    /\ prod' = [prod EXCEPT ![p] = IdleProducer]
    /\ UNCHANGED <<nextSeq, log, buffer, raised, sseCount, st, wsVars, postVars, relayVars, bridgeVars, listenerVars, revokeVars, closeVars>>

\* redis.publish raises: nothing catches it
BPublishFail(p) ==
    /\ prod[p].pc = "publish"
    /\ Cardinality(raised) < MaxFailures
    /\ raised' = raised \cup {[seq |-> prod[p].ev.seq, at |-> "publish"]}
    /\ prod' = [prod EXCEPT ![p] = IdleProducer]
    /\ UNCHANGED <<nextSeq, log, buffer, fabric, sseCount, st, wsVars, postVars, relayVars, bridgeVars, listenerVars, revokeVars, closeVars>>

----------------------------------------------------------------------------
(* SSE stream engine: stream_events + event_generator *)

\* records yielded on a stream
EventRecord(e, phase) == [kind |-> "event", phase |-> phase, ev |-> e]
ResetRecord == [kind |-> "events.reset", phase |-> "replay", ev |-> NoEvent]
ErrorRecord == [kind |-> "error", phase |-> "accept", ev |-> NoEvent]

\* stream_events: the pre-check on get_sse_connection_count, then the
\* subscription rows are loaded and the generator is handed to the response
SseRequest(s, o, hasCursor, c, f) ==
    /\ st[s].pc = "idle"
    /\ IF sseCount[o] >= MAX_CONNECTIONS_PER_ORG
       THEN st' = [st EXCEPT ![s].pc = "http429", ![s].org = o]
       ELSE st' = [st EXCEPT ![s].pc = "incr", ![s].org = o,
                             ![s].has_cursor = hasCursor, ![s].last_event_id = c,
                             ![s].subscriptions = f]
    /\ UNCHANGED <<evVars, sseCount, wsVars, postVars, relayVars, bridgeVars, listenerVars, revokeVars, closeVars>>

\* count = await _increment_sse_connections(org_id); if count > MAX_CONNECTIONS_PER_ORG
SseIncr(s) ==
    /\ st[s].pc = "incr"
    /\ sseCount' = [sseCount EXCEPT ![st[s].org] = @ + 1]
    /\ IF sseCount'[st[s].org] > MAX_CONNECTIONS_PER_ORG
       THEN st' = [st EXCEPT ![s].pc = "over"]
       ELSE st' = [st EXCEPT ![s].pc = "subscribe", ![s].accepted_at = Len(fabric)]
    /\ UNCHANGED <<evVars, wsVars, postVars, relayVars, bridgeVars, listenerVars, revokeVars, closeVars>>

\* over the cap: decrement, yield the error record, return (before the try)
SseOverLimit(s) ==
    /\ st[s].pc = "over"
    /\ sseCount' = [sseCount EXCEPT ![st[s].org] = @ - 1]
    /\ st' = [st EXCEPT ![s].pc = "rejected", ![s].emitted = <<ErrorRecord>>]
    /\ UNCHANGED <<evVars, wsVars, postVars, relayVars, bridgeVars, listenerVars, revokeVars, closeVars>>

\* max_seen_id = last_event_id or -1
InitialMaxSeen(hasCursor, c) == IF hasCursor /\ c # 0 THEN c ELSE -1

\* pubsub.subscribe(REDIS_PUBSUB_CHANNEL); the subscriber sees what is published from now on
SseSubscribe(s) ==
    /\ st[s].pc = "subscribe"
    /\ st' = [st EXCEPT ![s].offset = Len(fabric), ![s].subscribed_at = Len(fabric),
                        ![s].max_seen_id = InitialMaxSeen(st[s].has_cursor, st[s].last_event_id),
                        ![s].pc = IF st[s].has_cursor /\ st[s].last_event_id >= 0
                                  THEN "replay_buffer" ELSE "live"]
    /\ UNCHANGED <<evVars, sseCount, wsVars, postVars, relayVars, bridgeVars, listenerVars, revokeVars, closeVars>>

\* _replay_from_buffer: (events, needs_db_fallback)
ReplayFromBuffer(raw_events, last_event_id) ==
    IF raw_events = <<>>
    THEN [events |-> <<>>, needs_db |-> TRUE]
    ELSE LET buffered == SortBySeq(SeqRange(raw_events))
             min_buf_id == buffered[1].seq
         IN  IF last_event_id >= min_buf_id
             THEN [events |-> SelectSeq2(buffered, last_event_id), needs_db |-> FALSE]
             ELSE [events |-> <<>>, needs_db |-> TRUE]

SseReplayBuffer(s) ==
    /\ st[s].pc = "replay_buffer"
    /\ LET r == ReplayFromBuffer(buffer[st[s].org], st[s].last_event_id)
       IN  st' = [st EXCEPT ![s].replay_events = r.events,
                            ![s].needs_db = r.needs_db,
                            ![s].pc = IF r.needs_db THEN "replay_db" ELSE "emit_replay"]
    /\ UNCHANGED <<evVars, sseCount, wsVars, postVars, relayVars, bridgeVars, listenerVars, revokeVars, closeVars>>

ShouldReset_UpToMin(rows, last_event_id) ==
    rows # {} /\ last_event_id <= MinOf({e.seq : e \in rows})

ShouldReset_OffByTwo(rows, last_event_id) ==
    rows # {} /\ last_event_id < MinOf({e.seq : e \in rows}) - 2

\* min_seq is not None and last_event_id < min_seq - 1
ShouldReset(rows, last_event_id) ==
    rows # {} /\ last_event_id < MinOf({e.seq : e \in rows}) - 1

\* select(Event).where(org_id, sequence_id > last_event_id).order_by(sequence_id).limit(MAX_REPLAY_EVENTS)
DbRange(rows, last_event_id) ==
    Take(SortBySeq({e \in rows : e.seq > last_event_id}), MAX_REPLAY_EVENTS)

\* _replay_from_db: (events, should_reset); on reset the events.reset record is yielded
SseReplayDb(s) ==
    /\ st[s].pc = "replay_db"
    /\ LET rows == OrgLog(st[s].org)
           reset == ShouldReset(rows, st[s].last_event_id)
       IN  st' = [st EXCEPT ![s].min_seq = IF rows = {} THEN 0 ELSE MinOf({e.seq : e \in rows}),
                            ![s].should_reset = reset,
                            ![s].replay_events = IF reset THEN <<>>
                                                 ELSE DbRange(rows, st[s].last_event_id),
                            ![s].emitted = IF reset THEN Append(@, ResetRecord) ELSE @,
                            ![s].pc = "emit_replay"]
    /\ UNCHANGED <<evVars, sseCount, wsVars, postVars, relayVars, bridgeVars, listenerVars, revokeVars, closeVars>>

RECURSIVE EmitAll(_, _, _, _)
\* the loop over replay_events: [out, max_seen_id] after the loop
EmitAll(events, max_seen_id, subscriptions, out) ==
    IF events = <<>> THEN [out |-> out, max_seen_id |-> max_seen_id]
    ELSE LET e == Head(events)
         IN  IF e.seq > max_seen_id /\ MatchesSubscriptions(e.type, Payload(e), subscriptions)
             THEN EmitAll(Tail(events), e.seq, subscriptions, Append(out, EventRecord(e, "replay")))
             ELSE EmitAll(Tail(events), max_seen_id, subscriptions, out)

SseEmitReplay(s) ==
    /\ st[s].pc = "emit_replay"
    /\ LET r == EmitAll(st[s].replay_events, st[s].max_seen_id, st[s].subscriptions, st[s].emitted)
       IN  st' = [st EXCEPT ![s].emitted = r.out, ![s].max_seen_id = r.max_seen_id,
                            ![s].pc = "live"]
    /\ UNCHANGED <<evVars, sseCount, wsVars, postVars, relayVars, bridgeVars, listenerVars, revokeVars, closeVars>>

LivePasses_NoOrgCheck(e, org, max_seen_id, subscriptions) ==
    /\ e.seq > max_seen_id
    /\ MatchesSubscriptions(e.type, Payload(e), subscriptions)

LivePasses_NoDedup(e, org, max_seen_id, subscriptions) ==
    /\ e.org = org
    /\ MatchesSubscriptions(e.type, Payload(e), subscriptions)

\* the three nested conditions of the live loop
LivePasses(e, org, max_seen_id, subscriptions) ==
    /\ e.org = org
    /\ e.seq > max_seen_id
    /\ MatchesSubscriptions(e.type, Payload(e), subscriptions)

\* one iteration of the live loop that got a message from the subscription
SseLiveMessage(s) ==
    /\ st[s].pc = "live"
    /\ st[s].offset < Len(fabric)
    /\ LET e == fabric[st[s].offset + 1]
       IN  IF LivePasses(e, st[s].org, st[s].max_seen_id, st[s].subscriptions)
           THEN st' = [st EXCEPT ![s].offset = @ + 1, ![s].max_seen_id = e.seq,
                                 ![s].emitted = Append(@, EventRecord(e, "live"))]
           ELSE st' = [st EXCEPT ![s].offset = @ + 1]
    /\ UNCHANGED <<evVars, sseCount, wsVars, postVars, relayVars, bridgeVars, listenerVars, revokeVars, closeVars>>

\* request.is_disconnected() or cancellation inside the try: the finally block
SseDisconnect(s) ==
    /\ st[s].pc \in {"replay_buffer", "replay_db", "emit_replay", "live"}
    /\ sseCount' = [sseCount EXCEPT ![st[s].org] = @ - 1]
    /\ st' = [st EXCEPT ![s].pc = "closed"]
    /\ UNCHANGED <<evVars, wsVars, postVars, relayVars, bridgeVars, listenerVars, revokeVars, closeVars>>

\* the TTL set by pipe.expire(buffer_key, 86400) in broadcast_event runs out
BufferExpire(o) ==
    /\ buffer[o] # <<>>
    /\ buffer' = [buffer EXCEPT ![o] = <<>>]
    /\ UNCHANGED <<nextSeq, log, fabric, prod, raised, sseVars, wsVars, postVars, relayVars, bridgeVars, listenerVars, revokeVars, closeVars>>

\* the TTL set by redis.expire(key, 3600) in _increment_sse_connections runs out:
\* the key is gone, get reads 0, the next incr returns 1, decr of the missing key gives -1
SseCounterExpire(o) ==
    /\ sseCount[o] > 0
    /\ \A s \in Streams : st[s].org = o => st[s].pc \notin {"incr", "over"}
    /\ sseCount' = [sseCount EXCEPT ![o] = 0]
    /\ UNCHANGED <<evVars, st, wsVars, postVars, relayVars, bridgeVars, listenerVars, revokeVars, closeVars>>

----------------------------------------------------------------------------
(* WebSocket multiplexer: ConnectionManager of one server process *)

ConnIds == {"w1", "w2", "w3"}

\* the authenticated user behind each socket
UserOf(c) == IF c = "w2" THEN "u2" ELSE "u1"

\* rows of the channels table: x is org-wide, y belongs to project p1, z is another tenant's
ChannelIds == {"x", "y", "z"}
ChannelRow(ch) ==
    IF ch = "x" THEN [org |-> "o1", type |-> "org_wide", project_id |-> None]
    ELSE IF ch = "y" THEN [org |-> "o1", type |-> "project", project_id |-> "p1"]
    ELSE [org |-> "o2", type |-> "org_wide", project_id |-> None]

\* rows of project_user_assignments
ProjectMembers(project) == IF project = "p1" THEN {"u1"} ELSE {}

NoFrame == [id |-> 0, channel_id |-> None]

\* no close frame sent by the server
NoClose == [code |-> 0, reason |-> None]

\* no subscribed frame sent by the server
NoSubscribed == [sent |-> FALSE, channel_ids |-> {}]

\* close is the close frame the server sent on the socket, subscribed the last
\* subscribed frame
IdleConn ==
    [pc |-> "idle", org |-> None, subscribed_channels |-> {}, got |-> {}, close |-> NoClose,
     subscribed |-> NoSubscribed]

\* no task in _redis_tasks; failed holds the connections whose send_text raised
\* during the broadcast of frame
NoListener ==
    [pc |-> "none", offset |-> 0, frame |-> NoFrame, target |-> None, idx |-> 0,
     dead |-> <<>>, start |-> {}, done |-> FALSE, failed |-> {}]

WsInit ==
    /\ wsCount = [o \in Orgs |-> 0]
    /\ connections = [o \in Orgs |-> <<>>]
    /\ conn = [c \in ConnIds |-> IdleConn]
    /\ chat = [o \in Orgs |-> <<>>]
    /\ lst = [o \in Orgs |-> NoListener]

\* list.remove(info), ValueError swallowed
RECURSIVE Remove(_, _)
Remove(q, x) ==
    IF q = <<>> THEN <<>>
    ELSE IF Head(q) = x THEN Tail(q)
         ELSE <<Head(q)>> \o Remove(Tail(q), x)

Registered(c, o) == c \in SeqRange(connections[o])

\* connect, up to the limit check: current = await _get_ws_connection_count(org_id)
WsConnectCheck(c, o) ==
    /\ conn[c].pc = "idle"
    /\ conn' = [conn EXCEPT ![c].org = o,
                            ![c].pc = IF wsCount[o] >= MAX_CONNECTIONS_PER_ORG
                                      THEN "rejected" ELSE "accepting"]
    /\ UNCHANGED <<evVars, sseVars, wsCount, connections, chat, lst, postVars, relayVars, bridgeVars, listenerVars, revokeVars, closeVars>>

\* await websocket.accept(); then the connection is appended to the org's list,
\* which is created together with its listener task when the key is missing
WsAccept(c) ==
    /\ conn[c].pc = "accepting"
    /\ LET o == conn[c].org
       IN  /\ connections' = [connections EXCEPT ![o] = Append(@, c)]
           /\ lst' = IF connections[o] = <<>>
                     THEN [lst EXCEPT ![o] = [NoListener EXCEPT !.pc = "starting"]]
                     ELSE lst
    /\ conn' = [conn EXCEPT ![c].pc = "registering"]
    /\ UNCHANGED <<evVars, sseVars, wsCount, chat, postVars, relayVars, bridgeVars, listenerVars, revokeVars, closeVars>>

\* _register_connection: redis.incr(conn_key), expire, sadd; connect returns info
WsRegister(c) ==
    /\ conn[c].pc = "registering"
    /\ wsCount' = [wsCount EXCEPT ![conn[c].org] = @ + 1]
    /\ conn' = [conn EXCEPT ![c].pc = "open"]
    /\ UNCHANGED <<evVars, sseVars, connections, chat, lst, postVars, relayVars, bridgeVars, listenerVars, revokeVars, closeVars>>

ChannelAccessible_AnyTenant(ch, o, user) ==
    \/ ChannelRow(ch).type = "org_wide"
    \/ ChannelRow(ch).type = "project" /\ user \in ProjectMembers(ChannelRow(ch).project_id)

\* _get_channel and _verify_channel_access
ChannelAccessible(ch, o, user) ==
    /\ ChannelRow(ch).org = o
    /\ \/ ChannelRow(ch).type = "org_wide"
       \/ ChannelRow(ch).type = "project" /\ user \in ProjectMembers(ChannelRow(ch).project_id)

\* the strings a subscribe frame may carry as channel ids: the ids of the rows, the
\* id of x in upper case, a well-formed id without a row, and a string that is no UUID
FrameCids == ChannelIds \cup {"X", "q", "?"}

\* UUID(cid): the parsed id (hex digits in either case), None for ValueError
UuidOf(cid) ==
    IF cid = "X" THEN "x"
    ELSE IF cid = "?" THEN None
    ELSE cid

\* the ids of a frame that pass the loop body: UUID(cid) parses, _get_channel finds a
\* row of the connection's tenant, _verify_channel_access returns True
AcceptedCids(c, cids) ==
    {cid \in cids : /\ UuidOf(cid) \in ChannelIds
                    /\ ChannelAccessible(UuidOf(cid), conn[c].org, UserOf(c))}

\* a subscribe frame: each accepted cid is added as sent, every exception is swallowed,
\* then the subscribed frame carries list(conn_info.subscribed_channels)
WsSubscribeFrame(c, cids) ==
    /\ conn[c].pc = "open"
    /\ LET subs == conn[c].subscribed_channels \cup AcceptedCids(c, cids)
       IN  conn' = [conn EXCEPT ![c].subscribed_channels = subs,
                                ![c].subscribed = [sent |-> TRUE, channel_ids |-> subs]]
    /\ UNCHANGED <<evVars, sseVars, wsCount, connections, chat, lst, postVars, relayVars, bridgeVars, listenerVars, revokeVars, closeVars>>

\* a subscribe frame with one channel id, which is accepted
WsSubscribe(c, ch) ==
    /\ ch \notin conn[c].subscribed_channels
    /\ ChannelAccessible(ch, conn[c].org, UserOf(c))
    /\ WsSubscribeFrame(c, {ch})

DisconnectSync_KeepListener(c, o) ==
    IF connections[o] = <<>>
    THEN UNCHANGED <<connections, lst>>
    ELSE /\ connections' = [connections EXCEPT ![o] = Remove(@, c)]
         /\ UNCHANGED lst

\* disconnect, up to its await: remove from the list; the last one out cancels the
\* listener task and deletes the key
DisconnectSync(c, o) ==
    IF connections[o] = <<>>
    THEN UNCHANGED <<connections, lst>>
    ELSE /\ connections' = [connections EXCEPT ![o] = Remove(@, c)]
         /\ lst' = IF Remove(connections[o], c) = <<>>
                   THEN [lst EXCEPT ![o] = NoListener]
                   ELSE lst

\* the endpoint's receive_text raises WebSocketDisconnect: manager.disconnect(conn_info)
WsDisconnect(c) ==
    /\ conn[c].pc = "open"
    /\ DisconnectSync(c, conn[c].org)
    /\ conn' = [conn EXCEPT ![c].pc = "unregistering"]
    /\ UNCHANGED <<evVars, sseVars, wsCount, chat, postVars, relayVars, bridgeVars, listenerVars, revokeVars, closeVars>>

\* _unregister_connection: redis.decr(conn_key)
WsUnregister(c) ==
    /\ conn[c].pc = "unregistering"
    /\ wsCount' = [wsCount EXCEPT ![conn[c].org] = @ - 1]
    /\ conn' = [conn EXCEPT ![c].pc = "closed"]
    /\ UNCHANGED <<evVars, sseVars, connections, chat, lst, postVars, relayVars, bridgeVars, listenerVars, revokeVars, closeVars>>

\* the TTL set by redis.expire(conn_key, 3600) in _register_connection runs out
WsCounterExpire(o) ==
    /\ wsCount[o] > 0
    /\ wsCount' = [wsCount EXCEPT ![o] = 0]
    /\ UNCHANGED <<evVars, sseVars, connections, conn, chat, lst, postVars, relayVars, bridgeVars, listenerVars, revokeVars, closeVars>>

FramesPublished == Len(chat["o1"]) + Len(chat["o2"])

\* publish_message: redis.publish("mc:chat:{org}", frame); ch = None is a frame without channel_id
WsPublish(o, ch) ==
    /\ FramesPublished < MaxFrames
    /\ chat' = [chat EXCEPT ![o] = Append(@, [id |-> FramesPublished + 1, channel_id |-> ch])]
    /\ UNCHANGED <<evVars, sseVars, wsCount, connections, conn, lst, postVars, relayVars, bridgeVars, listenerVars, revokeVars, closeVars>>

\* _listen_redis: pubsub.subscribe(channel)
LSubscribe(o) ==
    /\ lst[o].pc = "starting"
    /\ lst' = [lst EXCEPT ![o].pc = "idle", ![o].offset = Len(chat[o])]
    /\ UNCHANGED <<evVars, sseVars, wsCount, connections, conn, chat, postVars, relayVars, bridgeVars, listenerVars, revokeVars, closeVars>>

\* the guard in the loop of broadcast_to_channel; broadcast_to_org has none
Eligible(subs, frame) ==
    \/ frame.channel_id = None
    \/ ~ (subs # {} /\ frame.channel_id \notin subs)

\* the list iterator: the next position, from idx on, of the live list that passes the guard
NextTarget(o, frame, idx) ==
    LET js == {j \in idx..Len(connections[o]) :
                 Eligible(conn[connections[o][j]].subscribed_channels, frame)}
    IN  IF js = {} THEN 0 ELSE MinOf(js)

\* the broadcast loop runs on from position idx until it suspends: in send_text for
\* the next connection that passes the guard, or, the iterator exhausted, in the
\* redis.decr of the first disconnect(dead), or back in pubsub.listen(); cnt is the
\* counter as the step leaves it.  When disconnect(dead) empties the list the task
\* cancels itself: CancelledError is raised at the next suspension, inside
\* _unregister_connection, where the DECR command has been written or not
LoopFrom(o, frame, idx, dead, cnt) ==
    LET j == NextTarget(o, frame, idx)
    IN  IF j # 0
        THEN LET c == connections[o][j]
             IN  /\ conn' = [conn EXCEPT ![c].got = @ \cup {[id |-> frame.id,
                                                            subs |-> conn[c].subscribed_channels,
                                                            n |-> Cardinality(conn[c].got)]}]
                 /\ lst' = [lst EXCEPT ![o].pc = "sending", ![o].frame = frame,
                                       ![o].target = c, ![o].idx = j + 1, ![o].dead = dead,
                                       ![o].failed = @ \cup SeqRange(dead)]
                 /\ wsCount' = [wsCount EXCEPT ![o] = cnt]
                 /\ UNCHANGED connections
        ELSE IF dead = <<>>
        THEN /\ lst' = [lst EXCEPT ![o].pc = "idle", ![o].frame = frame, ![o].target = None,
                                   ![o].dead = dead, ![o].done = TRUE,
                                   ![o].failed = @ \cup SeqRange(dead)]
             /\ wsCount' = [wsCount EXCEPT ![o] = cnt]
             /\ UNCHANGED <<conn, connections>>
        ELSE LET rest == Remove(connections[o], Head(dead))
             IN  /\ connections' = [connections EXCEPT ![o] = rest]
                 /\ IF rest = <<>>
                    THEN /\ lst' = [lst EXCEPT ![o] = NoListener]
                         /\ \E sent \in {0, 1} : wsCount' = [wsCount EXCEPT ![o] = cnt - sent]
                    ELSE /\ lst' = [lst EXCEPT ![o].pc = "unregistering", ![o].frame = frame,
                                               ![o].target = None, ![o].dead = dead,
                                               ![o].failed = @ \cup SeqRange(dead)]
                         /\ wsCount' = [wsCount EXCEPT ![o] = cnt]
                 /\ UNCHANGED conn

\* pubsub.listen() yields a message: broadcast_to_channel / broadcast_to_org runs up
\* to its first send_text
LTake(o) ==
    /\ lst[o].pc = "idle"
    /\ lst[o].offset < Len(chat[o])
    /\ LET f == chat[o][lst[o].offset + 1]
           j == NextTarget(o, f, 1)
           started == [lst[o] EXCEPT !.offset = @ + 1, !.frame = f, !.dead = <<>>,
                                     !.failed = {},
                                     !.start = {<<c, conn[c].subscribed_channels>> :
                                                   c \in SeqRange(connections[o])}]
       IN  IF j # 0
           THEN LET c == connections[o][j]
                IN  /\ conn' = [conn EXCEPT ![c].got = @ \cup {[id |-> f.id,
                                                      subs |-> conn[c].subscribed_channels,
                                                      n |-> Cardinality(conn[c].got)]}]
                    /\ lst' = [lst EXCEPT ![o] = [started EXCEPT !.pc = "sending", !.target = c,
                                                                 !.idx = j + 1, !.done = FALSE]]
           ELSE /\ lst' = [lst EXCEPT ![o] = [started EXCEPT !.target = None, !.done = TRUE]]
                /\ UNCHANGED conn
    /\ UNCHANGED <<evVars, sseVars, wsCount, connections, chat, postVars, relayVars, bridgeVars, listenerVars, revokeVars, closeVars>>

\* await conn_info.websocket.send_text(msg_text) returns
LSendOk(o) ==
    /\ lst[o].pc = "sending"
    /\ LoopFrom(o, lst[o].frame, lst[o].idx, lst[o].dead, wsCount[o])
    /\ UNCHANGED <<evVars, sseVars, chat, postVars, relayVars, bridgeVars, listenerVars, revokeVars, closeVars>>

\* await conn_info.websocket.send_text(msg_text) raises: dead_connections.append(conn_info)
LSendFail(o) ==
    /\ lst[o].pc = "sending"
    /\ LoopFrom(o, lst[o].frame, lst[o].idx, Append(lst[o].dead, lst[o].target), wsCount[o])
    /\ UNCHANGED <<evVars, sseVars, chat, postVars, relayVars, bridgeVars, listenerVars, revokeVars, closeVars>>

\* disconnect(dead) resumes from redis.decr; the clean-up loop goes on with the next one
LUnregister(o) ==
    /\ lst[o].pc = "unregistering"
    /\ LoopFrom(o, lst[o].frame, Len(connections[o]) + 1, Tail(lst[o].dead), wsCount[o] - 1)
    /\ UNCHANGED <<evVars, sseVars, chat, postVars, relayVars, bridgeVars, listenerVars, revokeVars, closeVars>>

----------------------------------------------------------------------------
(* Message handlers: the message branch of websocket_endpoint and post_message *)

Posters == {"h1", "h2"}

\* h1 serves a message frame of a WebSocket, h2 a REST request
PosterKind(p) == IF p = "h1" THEN "ws" ELSE "rest"

\* Message.id
MessageId(p) == IF p = "h1" THEN 1 ELSE 2

Users == {"u1", "u2"}

\* content of a message, a string of characters; the empty string stands for every
\* content that `not content` rejects in the WebSocket branch (missing, null, "")
NoContent == <<>>
Contents == {<<"a">>, <<"/", "a">>, NoContent}

\* the characters of the contents that are posted to try the command detection
Chars == {" ", "/", "a"}

RECURSIVE Texts(_)
Texts(n) == IF n = 0 THEN {<<>>} ELSE {<<>>} \cup {<<ch>> \o t : ch \in Chars, t \in Texts(n - 1)}

CommandTexts == Texts(MaxContent)

\* str.isspace of one character
IsSpace(ch) == ch = " "

\* str.lstrip()
RECURSIVE LStrip(_)
LStrip(s) == IF s # <<>> /\ IsSpace(Head(s)) THEN LStrip(Tail(s)) ELSE s

\* str.rstrip()
RECURSIVE RStrip(_)
RStrip(s) ==
    IF s # <<>> /\ IsSpace(s[Len(s)]) THEN RStrip(SubSeq(s, 1, Len(s) - 1)) ELSE s

Strip_Left(s) == LStrip(s)

\* str.strip()
Strip(s) == LStrip(RStrip(s))

\* the length of the first run of non-whitespace characters of s
RECURSIVE TokenLen(_)
TokenLen(s) == IF s = <<>> \/ IsSpace(Head(s)) THEN 0 ELSE 1 + TokenLen(Tail(s))

\* str.split(None, 1): leading whitespace is skipped, the first token ends at the next
\* whitespace, the whitespace after it is skipped, and what is left (if anything) is
\* the second part, unchanged
SplitOnce(s) ==
    LET t == LStrip(s)
        n == TokenLen(t)
        rest == LStrip(SubSeq(t, n + 1, Len(t)))
    IN  IF n = 0 THEN <<>>
        ELSE IF rest = <<>> THEN <<SubSeq(t, 1, n)>>
        ELSE <<SubSeq(t, 1, n), rest>>

\* content_stripped.startswith("/")
IsCommand(content) == StartsWith(Strip(content), <<"/">>)

\* command = parts[0][1:]; args = parts[1] if len(parts) > 1 else ""
CommandOf(content) == Tail(SplitOnce(Strip(content))[1])
ArgsOf(content) ==
    LET parts == SplitOnce(Strip(content))
    IN  IF Len(parts) > 1 THEN parts[2] ELSE <<>>

IdlePoster ==
    [pc |-> "idle", user |-> None, channel_id |-> None, content |-> NoContent, client_id |-> None,
     prior |-> {}, payload |-> NoFrame]

PostInit ==
    /\ msgs = <<>>
    /\ post = [p \in Posters |-> IdlePoster]
    /\ calls = <<>>

\* the checks before the message is built: in the WebSocket branch both fields are
\* present and not empty (post_message takes any content string), _get_channel finds
\* the channel in the tenant, _verify_channel_access allows the user
MessageAccepted(kind, o, user, ch, content) ==
    /\ ch # None
    /\ kind = "ws" => content # NoContent
    /\ ch \in ChannelIds
    /\ ChannelAccessible(ch, o, user)

\* a message frame / a POST arrives: error frame or HTTP error, or Message(...) and
\* session.add; prior holds the messages whose commit was over by then
MsgReceive(p, user, ch, content, client_id) ==
    /\ post[p].pc = "idle"
    /\ post' = [post EXCEPT ![p] =
                  [IdlePoster EXCEPT !.pc = IF MessageAccepted(PosterKind(p), "o1", user, ch, content)
                                            THEN "commit" ELSE "rejected",
                                     !.user = user, !.channel_id = ch, !.content = content,
                                     !.client_id = client_id,
                                     !.prior = {m.id : m \in SeqRange(msgs)}]]
    /\ UNCHANGED <<evVars, sseVars, wsVars, msgs, calls, relayVars, bridgeVars, listenerVars, revokeVars, closeVars>>

\* await session.commit(): the message row is persisted
MsgCommit(p) ==
    /\ post[p].pc = "commit"
    /\ msgs' = Append(msgs, [id |-> MessageId(p), channel_id |-> post[p].channel_id,
                             sender_id |-> post[p].user, prior |-> post[p].prior])
    /\ post' = [post EXCEPT ![p].pc = "publish"]
    /\ UNCHANGED <<evVars, sseVars, wsVars, calls, relayVars, bridgeVars, listenerVars, revokeVars, closeVars>>

\* after refresh and _get_sender_info: manager.publish_message(org_id, payload); the
\* WebSocket payload echoes client_id, the REST payload has no such key
MsgPublish(p) ==
    /\ post[p].pc = "publish"
    /\ chat' = [chat EXCEPT !["o1"] = Append(@, [id |-> MessageId(p),
                                                 channel_id |-> post[p].channel_id])]
    /\ post' = [post EXCEPT ![p].pc = "events",
                            ![p].payload = [id |-> MessageId(p),
                                            channel_id |-> post[p].channel_id,
                                            sender_id |-> post[p].user,
                                            client_id |-> IF PosterKind(p) = "ws"
                                                          THEN post[p].client_id ELSE None]]
    /\ UNCHANGED <<evVars, sseVars, wsCount, connections, conn, lst, msgs, calls, relayVars, bridgeVars, listenerVars, revokeVars, closeVars>>

Call(type, p) ==
    [type |-> type, message_id |-> MessageId(p), channel_id |-> post[p].channel_id,
     sender_id |-> post[p].user]

\* the payload of command.invoked
CommandCall(p) ==
    [type |-> "command.invoked", message_id |-> MessageId(p),
     channel_id |-> post[p].channel_id, sender_id |-> post[p].user,
     command |-> CommandOf(post[p].content), args |-> ArgsOf(post[p].content)]

\* the broadcast_event calls that end the handler: post_message emits message.created
\* and then runs _handle_mentions_and_commands; the WebSocket branch only runs the latter
MsgEvents(p) ==
    /\ post[p].pc = "events"
    /\ calls' = calls
                  \o (IF PosterKind(p) = "rest" THEN <<Call("message.created", p)>> ELSE <<>>)
                  \o (IF IsCommand(post[p].content) THEN <<CommandCall(p)>> ELSE <<>>)
    /\ post' = [post EXCEPT ![p].pc = "done"]
    /\ UNCHANGED <<evVars, sseVars, wsVars, msgs, relayVars, bridgeVars, listenerVars, revokeVars, closeVars>>

----------------------------------------------------------------------------
(* Bridge, outbound side: MessageRelay.post_to_mc, _post_to_mc, flush_outbound *)

\* the replies the bridge posts, one per post_to_mc call
OutMsgs == 1..MaxPostCalls

\* what a POST to the hub can end in: a 2xx, a 429, another 4xx, a 5xx, a
\* ConnectError / ReadError, or another exception of the client (a timeout)
Outcomes == {"ok", "429", "4xx", "5xx", "net", "other"}

IdleRelay ==
    [pc |-> "idle", mode |-> "none", msg |-> 0, attempt |-> 0, last_exc |-> FALSE,
     outcomes |-> <<>>, ret |-> None]

RelayInit ==
    /\ relay = IdleRelay
    /\ outbound = <<>>
    /\ nPosts = [m \in OutMsgs |-> 0]
    /\ denied = {}
    /\ accepted = {}

\* deque(maxlen = OUTBOUND_BUFFER_MAX).append: a full deque drops its oldest entry
DequeAppend(q, x) ==
    IF Len(q) >= OUTBOUND_BUFFER_MAX THEN Append(Tail(q), x) ELSE Append(q, x)

\* post_to_mc is called for a new reply
PostToMc(m) ==
    /\ relay.pc \in {"idle", "done"}
    /\ m = 1 + Cardinality({k \in OutMsgs : nPosts[k] > 0})
    /\ m \in OutMsgs
    /\ relay' = [IdleRelay EXCEPT !.pc = "posting", !.mode = "post", !.msg = m]
    /\ UNCHANGED <<evVars, sseVars, wsVars, postVars, outbound, nPosts, denied, accepted, bridgeVars, listenerVars, revokeVars, closeVars>>

\* how one iteration of the retry loop goes on after the POST ended in outcome
AfterAttempt_GoOn(outcome) ==
    IF outcome \in {"4xx", "other"} THEN "raise" ELSE "next"

AfterAttempt(outcome) ==
    IF outcome = "ok" THEN "return"
    ELSE IF outcome \in {"4xx", "other"} THEN "raise"
    ELSE "next"

\* how _post_to_mc ends: "returned", "raised", or "" while the loop goes on
PostEnd(outcome, attempt, last_exc) ==
    IF AfterAttempt(outcome) = "return" THEN "returned"
    ELSE IF AfterAttempt(outcome) = "raise" THEN "raised"
    ELSE IF attempt + 1 < MAX_RETRIES THEN ""
    ELSE IF last_exc \/ outcome \in {"5xx", "net"} THEN "raised" ELSE "returned"

\* one iteration of the loop of _post_to_mc: the POST, its outcome, the sleep; when
\* the function ends post_to_mc returns True, or buffers the message and returns
\* False; flush_outbound goes on with the next entry, or breaks
PostAttempt(outcome) ==
    /\ relay.pc = "posting"
    /\ relay.attempt < MAX_RETRIES
    /\ nPosts' = [nPosts EXCEPT ![relay.msg] = @ + 1]
    /\ denied' = IF outcome = "4xx" THEN denied \cup {relay.msg} ELSE denied
    /\ accepted' = IF outcome = "ok" THEN accepted \cup {relay.msg} ELSE accepted
    /\ LET end == PostEnd(outcome, relay.attempt, relay.last_exc)
           r == [relay EXCEPT !.attempt = @ + 1,
                              !.last_exc = @ \/ outcome \in {"5xx", "net"},
                              !.outcomes = Append(@, outcome)]
       IN  IF end = ""
           THEN /\ relay' = r
                /\ UNCHANGED outbound
           ELSE IF relay.mode = "post"
           THEN /\ relay' = [r EXCEPT !.pc = "done", !.ret = (end = "returned")]
                /\ outbound' = IF end = "raised" THEN DequeAppend(outbound, relay.msg)
                               ELSE outbound
           ELSE IF end = "returned" /\ outbound # <<>>
           THEN /\ relay' = [IdleRelay EXCEPT !.pc = "posting", !.mode = "flush",
                                              !.msg = Head(outbound)]
                /\ outbound' = Tail(outbound)
           ELSE /\ relay' = [r EXCEPT !.pc = "flushed"]
                /\ UNCHANGED outbound
    /\ UNCHANGED <<evVars, sseVars, wsVars, postVars, bridgeVars, listenerVars, revokeVars, closeVars>>

\* flush_outbound (on shutdown): popleft and _post_to_mc while the buffer is not empty
FlushOutbound ==
    /\ relay.pc \in {"idle", "done"}
    /\ IF outbound = <<>>
       THEN /\ relay' = [IdleRelay EXCEPT !.pc = "flushed", !.mode = "flush"]
            /\ UNCHANGED outbound
       ELSE /\ relay' = [IdleRelay EXCEPT !.pc = "posting", !.mode = "flush",
                                          !.msg = Head(outbound)]
            /\ outbound' = Tail(outbound)
    /\ UNCHANGED <<evVars, sseVars, wsVars, postVars, nPosts, denied, accepted, bridgeVars, listenerVars, revokeVars, closeVars>>

----------------------------------------------------------------------------
(* Bridge, inbound side: CommsBridge.start / stop, SSEListener._dispatch_event, *)
(* EventRouter.handle_event and its handlers, BridgeState cursors              *)

\* None where a string id is expected: a cursor, a Last-Event-ID, a sequence id
NoId == <<>>

\* agent.name, a string modelled as a sequence of characters
AgentName == <<"a", "-", "b">>

\* str.replace(x, y) on single characters
Replace(s, x, y) == [i \in 1..Len(s) |-> IF s[i] = x THEN y ELSE s[i]]

\* EventRouter._sender_id
SenderId == Replace(AgentName, "-", "_")

\* payload.get("sender_id") == self._sender_id, the first statement of
\* _handle_message and of _handle_command
IsSelf_Name(sender_id) == sender_id = AgentName

IsSelf(sender_id) == sender_id = SenderId

\* the sender ids events carry: the bridge's own, the agent's name, a human's
Senders == {SenderId, AgentName, <<"u">>}

\* message contents, as the words of content.strip()
BridgeContents ==
    { <<"hello">>, <<"mc-bridge", "subscribe", "t">>, <<"mc-bridge", "subscribe">>, <<>> }

\* content.strip().startswith("mc-bridge ")
IsBridgeCommand(content) == Len(content) >= 2 /\ content[1] = "mc-bridge"

\* _handle_bridge_command: whether the sub-command posts an acknowledgement
BridgeCommandPosts(parts) ==
    \/ parts[2] \in {"subscribe", "unsubscribe"} /\ Len(parts) >= 3
    \/ parts[2] = "subscriptions"

\* SSEEvent as _dispatch_event builds it: event_type, the payload keys the router
\* reads, sequence_id = str(data["sequence_id"]) and raw_id (both NoId when absent)
BridgeEvent(type, sender_id, content, channel_id, sequence_id) ==
    [type |-> type, sender_id |-> sender_id, content |-> content,
     channel_id |-> channel_id, sequence_id |-> sequence_id, raw_id |-> sequence_id]

NoBridgeEvent == BridgeEvent(None, <<>>, <<>>, None, NoId)

\* what a call of the runtime can end in: a response, an empty response, None
\* (HTTPStatusError or ConnectError, caught by forward_to_gateway), or another
\* exception of the client (a read timeout), which forward_to_gateway lets through
GatewayOutcomes == {"reply", "empty", "error", "exception"}

\* the bridge before its first start; stop_calls counts the calls of stop, closed
\* lists what stop has closed; cursor_at_start is the cursor start read,
\* log_at_stop and offline record which events of the tenant were appended while
\* the bridge was stopped
StoppedBridge ==
    [pc |-> "stopped", starts |-> 0, stream |-> None, read |-> 0,
     last_event_id |-> NoId, ev |-> NoBridgeEvent, msg |-> 0,
     cursor_at_start |-> NoId, log_at_stop |-> {}, offline |-> {},
     stop_calls |-> 0, closed |-> <<>>]

\* the tenant of the agent (agent.org_slug)
BridgeOrg == "o1"

\* int(x) of the string str(n)
ParseInt(x) == x[1]

\* the SSE record the listener reads, as _dispatch_event parses it: the type of the
\* hub's message events stands for message.created, its payload has the sender's
\* user id and no content; events.reset and error records have no id
FromRecord(rec) ==
    IF rec.kind = "event"
    THEN BridgeEvent(IF rec.ev.type = MessageEvent.type THEN "message.created"
                     ELSE "task.updated",
                     <<"u">>, <<>>, rec.ev.channel_id, Str(rec.ev.seq))
    ELSE BridgeEvent(rec.kind, <<>>, <<>>, None, NoId)

NoReply == [channel_id |-> None, content |-> <<>>, sender_id |-> <<>>, re |-> NoId]

BridgeInit ==
    /\ bridge = StoppedBridge
    /\ cursor = NoId
    /\ seen = {}
    /\ gwCalls = {}
    /\ replies = [m \in OutMsgs |-> NoReply]
    /\ sessions = {}

\* the number post_to_mc gives the next new reply
NextMsg == 1 + Cardinality({k \in OutMsgs : nPosts[k] > 0})

\* the events that manage sessions: the payload keys the router reads (user_id,
\* project_id, sub_agent_id, channel_id; "" when absent) and agent_id, the agent a
\* sub-agent belongs to, which no handler reads
SessionEvent(type, user_id, agent_id, project_id, sub_agent_id, channel_id, sequence_id) ==
    BridgeEvent(type, <<>>, <<>>, channel_id, sequence_id)
        @@ [user_id |-> user_id, agent_id |-> agent_id, project_id |-> project_id,
            sub_agent_id |-> sub_agent_id]

\* f"mc:{org_slug}:project:{project_id}" and f"mc:{org_slug}:sub:{sub_agent_id}"
SessionKey(kind, id) == <<"mc", BridgeOrg, kind, id>>

\* INSERT OR REPLACE INTO session_mappings: session_key is the primary key
CreateSessionMapping(rows, session_key, agent_id, channel_id, channel_type) ==
    {r \in rows : r.session_key # session_key}
        \cup {[session_key |-> session_key, agent_id |-> agent_id, channel_id |-> channel_id,
                channel_type |-> channel_type]}

\* DELETE FROM session_mappings WHERE session_key = ?
DeleteSessionMapping(rows, session_key) == {r \in rows : r.session_key # session_key}

\* _resolve_session: get_session_key finds a row of the channel and the agent, or a
\* project-style mapping keyed by the channel id is created
ResolveSession(rows, agent_id, channel_id) ==
    IF \E r \in rows : r.channel_id = channel_id /\ r.agent_id = agent_id THEN rows
    ELSE CreateSessionMapping(rows, SessionKey("project", channel_id), agent_id, channel_id,
                              "project")

\* if user_id != self._agent.name: return; a mapping is created when channel_id is set
HandleAssignment(rows, e) ==
    IF e.user_id # AgentName THEN rows
    ELSE IF e.channel_id # ""
    THEN CreateSessionMapping(rows, SessionKey("project", e.project_id), AgentName, e.channel_id,
                              "project")
    ELSE rows

HandleUnassignment(rows, e) ==
    IF e.user_id # AgentName THEN rows
    ELSE DeleteSessionMapping(rows, SessionKey("project", e.project_id))

\* if sub_agent_id and channel_id: create_session_mapping
HandleSubAgentCreated(rows, e) ==
    IF e.sub_agent_id # "" /\ e.channel_id # ""
    THEN CreateSessionMapping(rows, SessionKey("sub", e.sub_agent_id), AgentName, e.channel_id,
                              "sub_agent")
    ELSE rows

\* if sub_agent_id: delete_session_mapping
HandleSubAgentTerminated(rows, e) ==
    IF e.sub_agent_id # ""
    THEN DeleteSessionMapping(rows, SessionKey("sub", e.sub_agent_id))
    ELSE rows

\* handle_event up to its first await: where the handler of event e suspends
Route(e) ==
    IF e.type = "message.created"
    THEN IF IsSelf(e.sender_id) THEN "save"
         ELSE IF IsBridgeCommand(e.content)
         THEN IF BridgeCommandPosts(e.content) THEN "post" ELSE "save"
         ELSE "forward"
    ELSE IF e.type = "command.invoked"
    THEN IF IsSelf(e.sender_id) THEN "save" ELSE "forward"
    ELSE "save"

\* the arguments of post_to_mc for event e
Reply(e, content) ==
    [channel_id |-> e.channel_id, content |-> content, sender_id |-> SenderId,
     re |-> e.sequence_id]

\* the session mappings after the handler of event e ran its statements on them
SessionsAfter(e) ==
    IF Route(e) = "forward" THEN ResolveSession(sessions, AgentName, e.channel_id)
    ELSE IF e.type = "project.user_assigned" THEN HandleAssignment(sessions, e)
    ELSE IF e.type = "project.user_unassigned" THEN HandleUnassignment(sessions, e)
    ELSE IF e.type = "sub_agent.created" THEN HandleSubAgentCreated(sessions, e)
    ELSE IF e.type = "sub_agent.terminated" THEN HandleSubAgentTerminated(sessions, e)
    ELSE sessions

\* _dispatch_event followed by handle_event up to its first await
Dispatch(e, b) ==
    /\ NextMsg \in OutMsgs
    /\ seen' = seen \cup {e}
    /\ bridge' = [b EXCEPT !.pc = Route(e), !.ev = e,
                           !.last_event_id = IF e.raw_id # NoId THEN e.raw_id ELSE @,
                           !.msg = IF Route(e) = "post" THEN NextMsg ELSE 0]
    /\ replies' = IF Route(e) = "post"
                  THEN [replies EXCEPT ![NextMsg] = Reply(e, <<"ack">>)]
                  ELSE replies
    /\ sessions' = SessionsAfter(e)

\* CommsBridge.start: get_cursor, set_last_event_id when there is one, listener.start;
\* a new process has a new MessageRelay
BridgeStart ==
    /\ bridge.pc = "stopped"
    /\ bridge.starts <= MaxRestarts
    /\ bridge' = [StoppedBridge EXCEPT !.pc = "idle", !.starts = bridge.starts + 1,
                    !.stream = IF bridge.starts = 0 THEN "s1" ELSE "s2",
                    !.last_event_id = cursor, !.cursor_at_start = cursor,
                    !.offline = IF bridge.starts = 0 THEN {}
                                ELSE {e.seq : e \in OrgLog(BridgeOrg)} \ bridge.log_at_stop]
    /\ relay' = IdleRelay
    /\ outbound' = <<>>
    /\ UNCHANGED <<evVars, sseVars, wsVars, postVars, nPosts, denied, accepted,
                   cursor, seen, gwCalls, replies, sessions, listenerVars, revokeVars, closeVars>>

\* an event arrives on the stream and _dispatch_event hands it to the router
BridgeDispatch(e) ==
    /\ bridge.pc = "idle"
    /\ Dispatch(e, bridge)
    /\ UNCHANGED <<evVars, sseVars, wsVars, postVars, relayVars, cursor, gwCalls, listenerVars, revokeVars, closeVars>>

\* _connect_and_stream: the GET of the event stream, with Last-Event-ID when the
\* listener has one; the hub takes the request
BridgeConnect(s) ==
    /\ bridge.pc # "stopped" /\ bridge.stream = s
    /\ SseRequest(s, BridgeOrg, bridge.last_event_id # NoId,
                  IF bridge.last_event_id # NoId THEN ParseInt(bridge.last_event_id) ELSE 0,
                  NoFilter)

\* the listener reads the next record of its stream and dispatches it
BridgeReceive ==
    /\ bridge.pc = "idle"
    /\ bridge.stream # None
    /\ bridge.read < Len(st[bridge.stream].emitted)
    /\ Dispatch(FromRecord(st[bridge.stream].emitted[bridge.read + 1]),
                [bridge EXCEPT !.read = @ + 1])
    /\ UNCHANGED <<evVars, sseVars, wsVars, postVars, relayVars, cursor, gwCalls, listenerVars, revokeVars, closeVars>>

\* the hub notices that the client of stream s is gone
BridgeGone(s) ==
    /\ bridge.pc = "stopped" \/ bridge.stream # s
    /\ SseDisconnect(s)

\* CommsBridge.stop, after the listeners: flush_outbound
BridgeFlush ==
    /\ bridge.pc = "stopped" /\ bridge.stop_calls > 0
    /\ FlushOutbound

\* forward_to_gateway / forward_command_to_gateway returns or raises
GatewayAnswer(outcome) ==
    /\ bridge.pc = "forward"
    /\ gwCalls' = gwCalls \cup {bridge.ev}
    /\ IF outcome = "reply"
       THEN /\ bridge' = [bridge EXCEPT !.pc = "post", !.msg = NextMsg]
            /\ replies' = [replies EXCEPT ![NextMsg] = Reply(bridge.ev, <<"response">>)]
       ELSE /\ bridge' = [bridge EXCEPT !.pc = IF outcome = "exception" THEN "idle" ELSE "save"]
            /\ UNCHANGED replies
    /\ UNCHANGED <<evVars, sseVars, wsVars, postVars, relayVars, cursor, seen, sessions, listenerVars, revokeVars, closeVars>>

\* the handler calls post_to_mc with the reply it prepared
BridgePost ==
    /\ bridge.pc = "post"
    /\ PostToMc(bridge.msg)

\* post_to_mc returned to the handler
BridgePosted ==
    /\ bridge.pc = "post"
    /\ relay.pc = "done" /\ relay.mode = "post" /\ relay.msg = bridge.msg
    /\ bridge' = [bridge EXCEPT !.pc = "save"]
    /\ UNCHANGED <<evVars, sseVars, wsVars, postVars, relayVars, cursor, seen, gwCalls, replies, sessions, listenerVars, revokeVars, closeVars>>

\* the end of handle_event: save_cursor when the event has a sequence id
BridgeSaveCursor ==
    /\ bridge.pc = "save"
    /\ cursor' = IF bridge.ev.sequence_id # NoId THEN bridge.ev.sequence_id ELSE cursor
    /\ bridge' = [bridge EXCEPT !.pc = "idle"]
    /\ UNCHANGED <<evVars, sseVars, wsVars, postVars, relayVars, seen, gwCalls, replies, sessions, listenerVars, revokeVars, closeVars>>

\* CommsBridge.stop, or the end of the process: the listener task is cancelled,
\* and with it the handler and the post it is waiting for
BridgeStop ==
    /\ bridge.pc # "stopped"
    /\ bridge' = [bridge EXCEPT !.pc = "stopped", !.stop_calls = 1,
                                !.log_at_stop = {e.seq : e \in OrgLog(BridgeOrg)}]
    /\ relay' = IF relay.pc = "posting" THEN IdleRelay ELSE relay
    /\ UNCHANGED <<evVars, sseVars, wsVars, postVars, outbound, nPosts, denied, accepted,
                   cursor, seen, gwCalls, replies, sessions, listenerVars, revokeVars, closeVars>>

CloseOrder_StateFirst == <<"state", "client", "health">>

\* stop, step 3: self._health.stop(), self._relay.close(), self._state.close()
CloseOrder == <<"health", "client", "state">>

\* stop after flush_outbound returned: the next of the three closes
BridgeClose ==
    /\ bridge.pc = "stopped" /\ bridge.stop_calls > 0
    /\ relay.mode = "flush" /\ relay.pc = "flushed"
    /\ Len(bridge.closed) < Len(CloseOrder)
    /\ bridge' = [bridge EXCEPT !.closed = Append(@, CloseOrder[Len(@) + 1])]
    /\ UNCHANGED <<evVars, sseVars, wsVars, postVars, relayVars, cursor, seen, gwCalls, replies, sessions, listenerVars, revokeVars, closeVars>>

\* stop is called again: if not self._running: return
BridgeStopAgain ==
    /\ bridge.pc = "stopped" /\ bridge.stop_calls > 0
    /\ bridge.stop_calls < MaxStopCalls
    /\ bridge' = [bridge EXCEPT !.stop_calls = @ + 1]
    /\ UNCHANGED <<evVars, sseVars, wsVars, postVars, relayVars, cursor, seen, gwCalls, replies, sessions, listenerVars, revokeVars, closeVars>>

----------------------------------------------------------------------------
(* Bridge, SSE listener: SSEListener.start / stop, _listen_loop, _connect_and_stream *)

\* min(backoff * RECONNECT_MULTIPLIER, RECONNECT_MAX_SECONDS)
NextBackoff_NoCap(backoff) == backoff * RECONNECT_MULTIPLIER

NextBackoff(backoff) ==
    IF backoff * RECONNECT_MULTIPLIER < RECONNECT_MAX_SECONDS
    THEN backoff * RECONNECT_MULTIPLIER ELSE RECONNECT_MAX_SECONDS

\* the listener before start; silent is the time since the last line (now -
\* _last_event_at), lines the lines read on the connection, delay the argument of
\* the sleep in progress, ended how the last connection ended, and k the reconnects
\* since the start or since the last clean end, the one after the clean end included
NewListener ==
    [pc |-> "stopped", running |-> FALSE, connected |-> FALSE,
     backoff |-> RECONNECT_BASE_SECONDS, reconnect_count |-> 0,
     silent |-> 0, lines |-> 0, delay |-> 0, ended |-> "none", k |-> 0, fails |-> 0]

ListenerInit == sl = NewListener

\* start: _running = True, the task runs _listen_loop up to the GET of the stream
ListenerStart ==
    /\ sl.pc = "stopped" /\ ~ sl.running /\ sl.reconnect_count = 0
    /\ sl' = [sl EXCEPT !.running = TRUE, !.pc = "connecting"]
    /\ UNCHANGED <<evVars, sseVars, wsVars, postVars, relayVars, bridgeVars, revokeVars, closeVars>>

\* the rest of one iteration of _listen_loop after _connect_and_stream ended:
\* the reset of the backoff or the except branch, the count, the sleep
AfterConnection(l, clean) ==
    [l EXCEPT !.pc = "sleeping",
              !.connected = IF clean THEN @ ELSE FALSE,
              !.backoff = IF clean THEN RECONNECT_BASE_SECONDS ELSE @,
              !.delay = IF clean THEN RECONNECT_BASE_SECONDS ELSE l.backoff,
              !.reconnect_count = @ + 1,
              !.ended = IF clean THEN "clean" ELSE "error",
              !.k = IF clean THEN 1 ELSE @ + 1,
              !.fails = IF clean THEN 0 ELSE @ + 1]

\* the response is accepted: raise_for_status passes, _connected = True
ConnectOk ==
    /\ sl.pc = "connecting"
    /\ sl' = [sl EXCEPT !.pc = "streaming", !.connected = TRUE, !.silent = 0, !.lines = 0]
    /\ UNCHANGED <<evVars, sseVars, wsVars, postVars, relayVars, bridgeVars, revokeVars, closeVars>>

\* the GET fails (connect error) or raise_for_status raises
ConnectFail ==
    /\ sl.pc = "connecting"
    /\ sl.reconnect_count < MaxReconnects
    /\ sl' = AfterConnection(sl, FALSE)
    /\ UNCHANGED <<evVars, sseVars, wsVars, postVars, relayVars, bridgeVars, revokeVars, closeVars>>

\* aiter_lines yields a line (of an event, or a heartbeat comment)
StreamLine ==
    /\ sl.pc = "streaming"
    /\ sl' = [sl EXCEPT !.silent = 0, !.lines = IF @ < MaxLines THEN @ + 1 ELSE @]
    /\ UNCHANGED <<evVars, sseVars, wsVars, postVars, relayVars, bridgeVars, revokeVars, closeVars>>

\* a unit of time passes on the open connection without a line
StreamSilent ==
    /\ sl.pc = "streaming"
    /\ sl.silent <= HEARTBEAT_TIMEOUT
    /\ sl' = [sl EXCEPT !.silent = @ + 1]
    /\ UNCHANGED <<evVars, sseVars, wsVars, postVars, relayVars, bridgeVars, revokeVars, closeVars>>

\* the hub closes the stream: aiter_lines ends and _connect_and_stream returns
StreamEnd ==
    /\ sl.pc = "streaming"
    /\ sl.reconnect_count < MaxReconnects
    /\ sl' = AfterConnection(sl, TRUE)
    /\ UNCHANGED <<evVars, sseVars, wsVars, postVars, relayVars, bridgeVars, revokeVars, closeVars>>

\* reading the stream raises (a read error, a protocol error)
StreamError ==
    /\ sl.pc = "streaming"
    /\ sl.reconnect_count < MaxReconnects
    /\ sl' = AfterConnection(sl, FALSE)
    /\ UNCHANGED <<evVars, sseVars, wsVars, postVars, relayVars, bridgeVars, revokeVars, closeVars>>

\* the sleep ends: the backoff is multiplied, the loop connects again
ListenerWake ==
    /\ sl.pc = "sleeping"
    /\ sl' = [sl EXCEPT !.pc = "connecting", !.backoff = NextBackoff(sl.backoff)]
    /\ UNCHANGED <<evVars, sseVars, wsVars, postVars, relayVars, bridgeVars, revokeVars, closeVars>>

\* stop: _running = False, the task is cancelled, _connected = False
ListenerStop ==
    /\ sl.running
    /\ sl' = [sl EXCEPT !.pc = "stopped", !.running = FALSE, !.connected = FALSE]
    /\ UNCHANGED <<evVars, sseVars, wsVars, postVars, relayVars, bridgeVars, revokeVars, closeVars>>

----------------------------------------------------------------------------
(* SSE stream engine, revocation: stream_events' jti, the check of the live loop, *)
(* revoke_jwt                                                                     *)

RevStreams == {"s1", "s2"}

\* the credentials a stream is opened with: session tokens with their jti, an API key
Credentials ==
    { [kind |-> "jwt", jti |-> "j1"], [kind |-> "jwt", jti |-> "j2"],
      [kind |-> "api_key", jti |-> None] }

Jtis == {"j1", "j2"}

\* stream_events: jti = getattr(request.state, "jti", None); the authentication
\* dependency stores request.state.auth and nothing stores request.state.jti
RequestJti(cred) == None

IdleRevStream ==
    [pc |-> "idle", cred |-> [kind |-> None, jti |-> None], jti |-> None,
     revocation_check_counter |-> 0, emitted |-> <<>>, gone |-> FALSE]

RevokeInit ==
    /\ rv = [s \in RevStreams |-> IdleRevStream]
    /\ revoked = {}

\* revoke_jwt: setex jwt:revoked:{jti}
RevokeJwt(j) ==
    /\ revoked' = revoked \cup {j}
    /\ UNCHANGED <<evVars, sseVars, wsVars, postVars, relayVars, bridgeVars, listenerVars, rv, closeVars>>

\* authentication (a revoked token is refused), stream_events and event_generator
\* up to the live phase, for a stream under the cap
RevOpen(s, cred) ==
    /\ rv[s].pc = "idle"
    /\ cred.jti \notin revoked
    /\ sseCount[BridgeOrg] < MAX_CONNECTIONS_PER_ORG
    /\ sseCount' = [sseCount EXCEPT ![BridgeOrg] = @ + 1]
    /\ rv' = [rv EXCEPT ![s] = [IdleRevStream EXCEPT !.pc = "live", !.cred = cred,
                                                    !.jti = RequestJti(cred)]]
    /\ UNCHANGED <<evVars, st, wsVars, postVars, relayVars, bridgeVars, listenerVars, revoked, closeVars>>

\* one iteration of the live loop with the client still there: the counter, the
\* check of the marker when it is due and the stream has a jti, else the poll
\* (a heartbeat or an event); on a revoked jti session.revoked, break, finally
RevIterate(s) ==
    /\ rv[s].pc = "live"
    /\ LET due == rv[s].revocation_check_counter + 1 >= REVOCATION_CHECK_EVERY
                    /\ rv[s].jti # None
       IN  IF due /\ rv[s].jti \in revoked
           THEN /\ rv' = [rv EXCEPT ![s].pc = "closed", ![s].revocation_check_counter = 0,
                                    ![s].emitted = Append(@, "session.revoked")]
                /\ sseCount' = [sseCount EXCEPT ![BridgeOrg] = @ - 1]
           ELSE /\ rv' = [rv EXCEPT ![s].revocation_check_counter =
                                        IF due THEN 0
                                        ELSE IF @ < REVOCATION_CHECK_EVERY THEN @ + 1 ELSE @]
                /\ UNCHANGED sseCount
    /\ UNCHANGED <<evVars, st, wsVars, postVars, relayVars, bridgeVars, listenerVars, revoked, closeVars>>

\* request.is_disconnected(): break, finally
RevDisconnect(s) ==
    /\ rv[s].pc = "live"
    /\ rv' = [rv EXCEPT ![s].pc = "closed", ![s].gone = TRUE]
    /\ sseCount' = [sseCount EXCEPT ![BridgeOrg] = @ - 1]
    /\ UNCHANGED <<evVars, st, wsVars, postVars, relayVars, bridgeVars, listenerVars, revoked, closeVars>>

----------------------------------------------------------------------------
(* WebSocket multiplexer, revocation: ConnectionManager.close_for_revoked_jwt *)

\* ConnectionInfo.jti of each socket
JtiOf(c) == IF c = "w3" THEN "j2" ELSE "j1"

\* [c for c in self._connections[org_str] if c.jti == jti]
ToClose_All(q, jti) == q

ToClose(q, jti) == SelectSeq(q, LAMBDA c : JtiOf(c) = jti)

\* no call; registered is the list of the tenant when the call was made, raised the
\* connections whose close raised
NoCloseCall ==
    [pc |-> "idle", org |-> None, jti |-> None, to_close |-> <<>>,
     registered |-> {}, raised |-> {}]

CloseInit == rc = NoCloseCall

\* close_for_revoked_jwt up to its first await: the list to close, the first close
CloseForRevokedJwt(o, jti) ==
    /\ rc.pc = "idle"
    /\ rc' = [NoCloseCall EXCEPT
                !.pc = IF ToClose(connections[o], jti) = <<>> THEN "done" ELSE "closing",
                !.org = o, !.jti = jti, !.to_close = ToClose(connections[o], jti),
                !.registered = SeqRange(connections[o])]
    /\ UNCHANGED <<evVars, sseVars, wsVars, postVars, relayVars, bridgeVars, listenerVars, revokeVars>>

\* websocket.close(code=4001, reason="credential_revoked") returns or raises, then
\* disconnect(conn_info) up to its await
CloseSocket(ok) ==
    /\ rc.pc = "closing"
    /\ LET c == Head(rc.to_close)
       IN  /\ conn' = IF ok
                      THEN [conn EXCEPT ![c].close = [code |-> 4001, reason |-> "credential_revoked"]]
                      ELSE conn
           /\ rc' = [rc EXCEPT !.pc = "unregistering",
                               !.raised = IF ok THEN @ ELSE @ \cup {c}]
           /\ DisconnectSync(c, rc.org)
    /\ UNCHANGED <<evVars, sseVars, wsCount, chat, postVars, relayVars, bridgeVars, listenerVars, revokeVars>>

\* _unregister_connection of disconnect returns; the loop goes on or the call ends
CloseUnregister ==
    /\ rc.pc = "unregistering"
    /\ wsCount' = [wsCount EXCEPT ![rc.org] = @ - 1]
    /\ rc' = [rc EXCEPT !.to_close = Tail(@),
                        !.pc = IF Tail(rc.to_close) = <<>> THEN "done" ELSE "closing"]
    /\ UNCHANGED <<evVars, sseVars, connections, conn, chat, lst, postVars, relayVars, bridgeVars, listenerVars, revokeVars>>

----------------------------------------------------------------------------
(* Bridge and hub together: the hub's post_message serves the POST of the relay *)

\* str(auth.user_id) of the agent's credential: a UUID string, which has dashes
AgentUserId == <<"u", "-", "1">>

\* the message.created event post_message broadcasts for reply m of the bridge:
\* payload = {message_id, channel_id, sender_id: str(auth.user_id)}, no content;
\* the sender_id of the request body is not read
HubMessageCreated(m) ==
    BridgeEvent("message.created", AgentUserId, <<>>, replies[m].channel_id, Str(m + 1))

\* the event of an accepted reply arrives on the bridge's stream
ReplyEventArrives(m) ==
    /\ m \in accepted
    /\ HubMessageCreated(m) \notin seen
    /\ BridgeDispatch(HubMessageCreated(m))

\* the event of a human's message arrives on the bridge's stream
HumanEventArrives ==
    /\ seen = {}
    /\ BridgeDispatch(BridgeEvent("message.created", <<"u", "-", "2">>, <<>>, "c1", Str(1)))

----------------------------------------------------------------------------
(* Bridge with two agents of one tenant: the routers share one BridgeState *)

\* the name of a second agent of the configuration, with the same org_slug
OtherAgentName == <<"c">>

Agents == {AgentName, OtherAgentName}

\* the channels the agents see messages of
SessionChannels == {"c1", "c2", "c3"}

\* what _resolve_session returns: the key of the row found, or the key it creates
ResolvedKey(rows, agent_id, channel_id) ==
    IF \E r \in rows : r.channel_id = channel_id /\ r.agent_id = agent_id
    THEN (CHOOSE r \in rows : r.channel_id = channel_id /\ r.agent_id = agent_id).session_key
    ELSE SessionKey("project", channel_id)

\* the router of an agent handles a message of a channel: _resolve_session, then
\* forward_to_gateway with the session key
AgentResolves(agent_id, channel_id) ==
    /\ sessions' = ResolveSession(sessions, agent_id, channel_id)
    /\ gwCalls' = gwCalls \cup {[agent_id |-> agent_id, channel_id |-> channel_id,
                                 session_key |-> ResolvedKey(sessions, agent_id, channel_id)]}
    /\ UNCHANGED <<evVars, sseVars, wsVars, postVars, relayVars, bridge, cursor, seen, replies, listenerVars, revokeVars, closeVars>>

----------------------------------------------------------------------------
(* Specifications *)

Init ==
    /\ nextSeq = 1
    /\ log = {}
    /\ buffer = [o \in Orgs |-> <<>>]
    /\ fabric = <<>>
    /\ prod = [p \in Producers |-> IdleProducer]
    /\ raised = {}
    /\ sseCount = [o \in Orgs |-> 0]
    /\ st = [s \in Streams |-> IdleStream]
    /\ WsInit
    /\ PostInit
    /\ RelayInit
    /\ BridgeInit
    /\ ListenerInit
    /\ RevokeInit
    /\ CloseInit

Cursors == 0..(MaxEvents - 1)

\* the tenant each socket authenticates for
WsOrg(c) == IF c = "w3" THEN "o2" ELSE "o1"

\* the channel ids carried by the frames published for a tenant (None: no channel_id)
FrameChannels(o) == IF o = "o1" THEN {"x", "y", None} ELSE {"z"}

\* producers broadcasting while one client connects, replays and listens
Next ==
    \/ \E p \in Producers : \E b \in Broadcasts(p) : BInsert(p, b[1], b[2])
    \/ \E p \in Producers : BCommit(p)
    \/ \E p \in Producers : BCommitFail(p)
    \/ \E p \in Producers : BPush(p)
    \/ \E p \in Producers : BPushFail(p)
    \/ \E p \in Producers : BPublish(p)
    \/ \E p \in Producers : BPublishFail(p)
    \/ \E s \in ReplayStreams, o \in StreamOrgs, f \in Filters :
          \/ SseRequest(s, o, FALSE, 0, f)
          \/ \E c \in Cursors : SseRequest(s, o, TRUE, c, f)
    \/ \E s \in ReplayStreams : SseIncr(s)
    \/ \E s \in ReplayStreams : SseSubscribe(s)
    \/ \E s \in ReplayStreams : SseReplayBuffer(s)
    \/ \E s \in ReplayStreams : SseReplayDb(s)
    \/ \E s \in ReplayStreams : SseEmitReplay(s)
    \/ \E s \in ReplayStreams : SseLiveMessage(s)
    \/ \E s \in ReplayStreams : SseDisconnect(s)

Spec == Init /\ [][Next]_vars

\* concurrent SSE accepts and disconnects against the per-tenant counter
NextSseCap ==
    \/ \E s \in Streams, o \in Orgs : SseRequest(s, o, FALSE, 0, NoFilter)
    \/ \E s \in Streams : SseIncr(s)
    \/ \E s \in Streams : SseOverLimit(s)
    \/ \E s \in Streams : SseSubscribe(s)
    \/ \E s \in Streams : SseDisconnect(s)
    \/ \E o \in Orgs : SseCounterExpire(o)

SpecSseCap == Init /\ [][NextSseCap]_vars

\* WebSocket connections of one process, frames arriving on the chat streams
NextWs ==
    \/ \E c \in ConnIds : WsConnectCheck(c, WsOrg(c))
    \/ \E c \in ConnIds : WsAccept(c)
    \/ \E c \in ConnIds : WsRegister(c)
    \/ \E c \in ConnIds, ch \in ChannelIds : WsSubscribe(c, ch)
    \/ \E c \in ConnIds : WsDisconnect(c)
    \/ \E c \in ConnIds : WsUnregister(c)
    \/ \E o \in Orgs : \E ch \in FrameChannels(o) : WsPublish(o, ch)
    \/ \E o \in Orgs : LSubscribe(o)
    \/ \E o \in Orgs : LTake(o)
    \/ \E o \in Orgs : LSendOk(o)
    \/ \E o \in Orgs : LSendFail(o)
    \/ \E o \in Orgs : LUnregister(o)

SpecWs == Init /\ [][NextWs]_vars

\* concurrent WebSocket connects and disconnects against the per-tenant counter
NextWsCap ==
    \/ \E c \in ConnIds, o \in Orgs : WsConnectCheck(c, o)
    \/ \E c \in ConnIds : WsAccept(c)
    \/ \E c \in ConnIds : WsRegister(c)
    \/ \E c \in ConnIds : WsDisconnect(c)
    \/ \E c \in ConnIds : WsUnregister(c)
    \/ \E o \in Orgs : WsCounterExpire(o)

SpecWsCap == Init /\ [][NextWsCap]_vars

------------------------------------------------------------\* the message handlers with one WebSocket subscriber of the tenant
NextChat ==
    \/ \E p \in Posters, u \in Users, ch \in ChannelIds \cup {None}, t \in Contents :
          /\ PosterKind(p) = "rest" => (ch # None /\ t # NoContent)
          /\ MsgReceive(p, u, ch, t, IF PosterKind(p) = "ws" THEN "k1" ELSE None)
    \/ \E p \in Posters : MsgCommit(p)
    \/ \E p \in Posters : MsgPublish(p)
    \/ \E p \in Posters : MsgEvents(p)
    \/ WsConnectCheck("w1", "o1")
    \/ WsAccept("w1")
    \/ WsRegister("w1")
    \/ LSubscribe("o1")
    \/ LTake("o1")
    \/ LSendOk("o1")

SpecChat == Init /\ [][NextChat]_vars

\* the relay alone: replies posted one after the other, then the flush of the shutdown
NextRelay ==
    \/ \E m \in OutMsgs : PostToMc(m)
    \/ \E outcome \in Outcomes : PostAttempt(outcome)
    \/ FlushOutbound

SpecRelay == Init /\ [][NextRelay]_vars

\* the router of one agent, its events being inputs: every type, sender and content
RouterEvents ==
    { BridgeEvent(t, u, w, "c1", Str(Cardinality(seen) + 1)) :
        t \in {"message.created", "command.invoked", "task.updated"},
        u \in Senders, w \in BridgeContents }

\* an event of the stream, as an input
RouterInput ==
    \E e \in RouterEvents : Cardinality(seen) < MaxBridgeEvents /\ BridgeDispatch(e)

NextRouter ==
    \/ BridgeStart
    \/ RouterInput
    \/ \E outcome \in GatewayOutcomes : GatewayAnswer(outcome)
    \/ BridgePost
    \/ \E outcome \in Outcomes : PostAttempt(outcome)
    \/ BridgePosted
    \/ BridgeSaveCursor

SpecRouter == Init /\ [][NextRouter]_vars

\* the router while the runtime and the hub are reachable: the runtime answers every
\* call with a response, the hub answers every POST, with a success or with a 429;
\* the event loop runs every coroutine that can go on, and every request ends
GatewayUp == \E outcome \in {"reply", "empty"} : GatewayAnswer(outcome)

HubUp == \E outcome \in {"ok", "429"} : PostAttempt(outcome)

NextRouterUp ==
    \/ BridgeStart
    \/ RouterInput
    \/ GatewayUp
    \/ BridgePost
    \/ HubUp
    \/ BridgePosted
    \/ BridgeSaveCursor

SpecRouterUp ==
    /\ Init /\ [][NextRouterUp]_vars
    /\ WF_vars(GatewayUp) /\ WF_vars(BridgePost) /\ WF_vars(HubUp)
    /\ WF_vars(BridgePosted) /\ WF_vars(BridgeSaveCursor)

\* the bridge of one agent on the hub's event stream, stopped and started again,
\* while message events are broadcast in its tenant; the hub accepts every POST
NextBridge ==
    \/ \E ot \in Broadcasts("b2") : BInsert("b2", ot[1], ot[2])
    \/ BCommit("b2")
    \/ BPush("b2")
    \/ BPublish("b2")
    \/ BridgeStart
    \/ \E s \in {"s1", "s2"} : BridgeConnect(s)
    \/ \E s \in {"s1", "s2"} :
          \/ SseIncr(s) \/ SseSubscribe(s) \/ SseReplayBuffer(s) \/ SseReplayDb(s)
          \/ SseEmitReplay(s) \/ SseLiveMessage(s) \/ BridgeGone(s)
    \/ BridgeReceive
    \/ \E outcome \in GatewayOutcomes : GatewayAnswer(outcome)
    \/ BridgePost
    \/ PostAttempt("ok")
    \/ BridgePosted
    \/ BridgeSaveCursor
    \/ BridgeStop
    \/ BridgeFlush

SpecBridge == Init /\ [][NextBridge]_vars

\* the listener of one agent and what its connection does
NextListener ==
    \/ ListenerStart
    \/ ConnectOk
    \/ ConnectFail
    \/ StreamLine
    \/ StreamSilent
    \/ StreamEnd
    \/ StreamError
    \/ ListenerWake
    \/ ListenerStop

SpecListener == Init /\ [][NextListener]_vars

\* the listener under the event loop: a sleep that was started ends
SpecListenerFair == SpecListener /\ WF_vars(ListenerWake)

\* streams opened with session tokens and API keys, and the revocation of tokens;
\* the live loop of an open stream keeps running (every wait of it is bounded)
NextRevoke ==
    \/ \E s \in RevStreams : \E cred \in Credentials : RevOpen(s, cred)
    \/ \E j \in Jtis : RevokeJwt(j)
    \/ \E s \in RevStreams : RevIterate(s)
    \/ \E s \in RevStreams : RevDisconnect(s)

SpecRevoke ==
    /\ Init /\ [][NextRevoke]_vars
    /\ \A s \in RevStreams : WF_vars(RevIterate(s))

\* one tenant's sockets come and go while one close_for_revoked_jwt call is made
NextWsRevoke ==
    \/ \E c \in ConnIds : WsConnectCheck(c, "o1")
    \/ \E c \in ConnIds : WsAccept(c)
    \/ \E c \in ConnIds : WsRegister(c)
    \/ \E c \in ConnIds : WsDisconnect(c)
    \/ \E c \in ConnIds : WsUnregister(c)
    \/ \E jti \in Jtis : CloseForRevokedJwt("o1", jti)
    \/ \E ok \in BOOLEAN : CloseSocket(ok)
    \/ CloseUnregister

SpecWsRevoke == Init /\ [][NextWsRevoke]_vars

\* a client connects, and connects again, with the sequence id of the tenant's newest
\* event as cursor, after the last append (publishes of appended events may still
\* follow); the ring buffer is populated, expired, or lacks events whose
\* push failed
ResumeStreams == {"s1", "s2"}

NoneConnected == \A s \in ResumeStreams : st[s].pc = "idle"

\* every broadcast_event call has appended and pushed its event; its publish may follow
Quiet == \A p \in Producers : prod[p].pc \in {"idle", "publish"}

NewestSeq(o) == MaxOf({e.seq : e \in OrgLog(o)})

ResumeBroadcast ==
    /\ NoneConnected
    /\ \E p \in Producers : \E b \in Broadcasts(p) : BInsert(p, b[1], b[2])

ResumeConnect(s) ==
    /\ Quiet
    /\ OrgLog(BridgeOrg) # {}
    /\ s = "s2" => st["s1"].pc = "closed"
    /\ \E f \in Filters :
          /\ s = "s2" => f = st["s1"].subscriptions
          /\ SseRequest(s, BridgeOrg, TRUE, NewestSeq(BridgeOrg), f)

NextResume ==
    \/ ResumeBroadcast
    \/ \E p \in Producers : BCommit(p)
    \/ \E p \in Producers : BPush(p)
    \/ \E p \in Producers : BPushFail(p)
    \/ \E p \in Producers : BPublish(p)
    \/ \E o \in Orgs : BufferExpire(o)
    \/ \E s \in ResumeStreams : ResumeConnect(s)
    \/ \E s \in ResumeStreams : SseIncr(s)
    \/ \E s \in ResumeStreams : SseSubscribe(s)
    \/ \E s \in ResumeStreams : SseReplayBuffer(s)
    \/ \E s \in ResumeStreams : SseReplayDb(s)
    \/ \E s \in ResumeStreams : SseEmitReplay(s)
    \/ \E s \in ResumeStreams : SseLiveMessage(s)
    \/ \E s \in ResumeStreams : SseDisconnect(s)

SpecResume == Init /\ [][NextResume]_vars

\* subscribe frames on open connections
NextSubscribe ==
    \/ \E c \in ConnIds : WsConnectCheck(c, WsOrg(c))
    \/ \E c \in ConnIds : WsAccept(c)
    \/ \E c \in ConnIds : WsRegister(c)
    \/ \E c \in ConnIds : \E cids \in SUBSET FrameCids : WsSubscribeFrame(c, cids)
    \/ \E c \in ConnIds : WsDisconnect(c)
    \/ \E c \in ConnIds : WsUnregister(c)

SpecSubscribe == Init /\ [][NextSubscribe]_vars

\* a message is posted, over a WebSocket or over REST, with any content of
\* CommandTexts; a second one follows it through the other handler
CommandPost(p, t) ==
    /\ \A q \in Posters \ {p} : post[q].pc \in {"idle", "rejected", "done"}
    /\ (\E q \in Posters : post[q].pc # "idle") => t \in Contents
    /\ MsgReceive(p, "u1", "x", t, IF PosterKind(p) = "ws" THEN "k1" ELSE None)

NextCommand ==
    \/ \E p \in Posters, t \in CommandTexts : CommandPost(p, t)
    \/ \E p \in Posters : MsgCommit(p)
    \/ \E p \in Posters : MsgPublish(p)
    \/ \E p \in Posters : MsgEvents(p)

SpecCommand == Init /\ [][NextCommand]_vars

\* the router of one agent and the events that manage sessions: assignments of this
\* agent and of another user, sub-agents of this agent and of another one, next to
\* messages of a user
SessionEvents ==
    LET n == Str(Cardinality(seen) + 1)
    IN  { SessionEvent(t, u, <<>>, "p1", "", ch, n) :
            t \in {"project.user_assigned", "project.user_unassigned"},
            u \in {AgentName, <<"u">>}, ch \in {"c1", ""} }
        \cup { SessionEvent(t, <<>>, a, "", sa, ch, n) :
                 t \in {"sub_agent.created", "sub_agent.terminated"},
                 a \in {AgentName, <<"u">>}, sa \in {"sa1", ""}, ch \in {"c2", ""} }
        \cup { BridgeEvent("message.created", <<"u">>, <<"hello">>, "c1", n) }

SessionInput ==
    \E e \in SessionEvents : Cardinality(seen) <= MaxBridgeEvents /\ BridgeDispatch(e)

NextSessions ==
    \/ BridgeStart
    \/ SessionInput
    \/ GatewayUp
    \/ BridgePost
    \/ PostAttempt("ok")
    \/ BridgePosted
    \/ BridgeSaveCursor

SpecSessions == Init /\ [][NextSessions]_vars

\* the bridge of one agent is started, handles events, and is stopped: the hub
\* accepts a reply or rejects it, so that the outbound buffer has entries at the stop
HubAnswers == \E outcome \in {"ok", "4xx"} : PostAttempt(outcome)

\* a message of a user arrives on the stream
ShutdownInput ==
    /\ Cardinality(seen) < MaxBridgeEvents
    /\ BridgeDispatch(BridgeEvent("message.created", <<"u">>, <<"hello">>, "c1",
                                  Str(Cardinality(seen) + 1)))

NextShutdown ==
    \/ BridgeStart
    \/ ShutdownInput
    \/ GatewayUp
    \/ BridgePost
    \/ HubAnswers
    \/ BridgePosted
    \/ BridgeSaveCursor
    \/ BridgeStop
    \/ BridgeFlush
    \/ BridgeClose
    \/ BridgeStopAgain

SpecShutdown == Init /\ [][NextShutdown]_vars

\* one human message, the bridge, the runtime, and the hub serving the bridge's POSTs
NextLoop ==
    \/ BridgeStart
    \/ HumanEventArrives
    \/ \E outcome \in GatewayOutcomes : GatewayAnswer(outcome)
    \/ BridgePost
    \/ \E outcome \in Outcomes : PostAttempt(outcome)
    \/ BridgePosted
    \/ BridgeSaveCursor
    \/ \E m \in OutMsgs : ReplyEventArrives(m)

SpecLoop == Init /\ [][NextLoop]_vars

\* two agents of one tenant resolve the sessions of the channels they get messages of
NextResolve ==
    \E a \in Agents, ch \in SessionChannels : AgentResolves(a, ch)

SpecResolve == Init /\ [][NextResolve]_vars

----------------
(* Claims *)

IsEvent(r) == r.kind = "event"

EmittedSeqs(s) == {st[s].emitted[i].ev.seq : i \in {j \in 1..Len(st[s].emitted) : IsEvent(st[s].emitted[j])}}

\* the fabric messages the stream has taken from its subscription so far
Consumed(s) == {fabric[k] : k \in 1..st[s].offset}

\* C1: on one stream the sequence ids of the emitted event records are strictly
\* increasing, replay phase and live phase together (so none is emitted twice)
C1_StrictlyIncreasing ==
    \A s \in Streams : \A i, j \in 1..Len(st[s].emitted) :
        (i < j /\ IsEvent(st[s].emitted[i]) /\ IsEvent(st[s].emitted[j]))
            => st[s].emitted[i].ev.seq < st[s].emitted[j].ev.seq

\* a replayed event was also received live and dropped, and a later live event was emitted
C1_Witness ==
    \E s \in Streams : \E i, j \in 1..Len(st[s].emitted) :
        /\ i < j
        /\ IsEvent(st[s].emitted[i]) /\ st[s].emitted[i].phase = "replay"
        /\ IsEvent(st[s].emitted[j]) /\ st[s].emitted[j].phase = "live"
        /\ st[s].emitted[i].ev \in Consumed(s)

\* C2: an event of the stream's tenant whose broadcast_event returned before the
\* connection was accepted, with sequence id above the cursor and not below the
\* smallest id in the log, and passing the filter, is emitted by the stream (the
\* streams answered with events.reset, which C3 is about, are left aside)
C2_AtLeastOnce ==
    \A s \in Streams :
        (st[s].pc = "live" /\ st[s].has_cursor /\ ~ st[s].should_reset) =>
            \A k \in 1..st[s].accepted_at :
                ( /\ fabric[k].org = st[s].org
                  /\ fabric[k].seq > st[s].last_event_id
                  /\ fabric[k].seq >= MinOf({e.seq : e \in OrgLog(st[s].org)})
                  /\ MatchesSubscriptions(fabric[k].type, Payload(fabric[k]), st[s].subscriptions) )
                => fabric[k].seq \in EmittedSeqs(s)

ReplayDone(s) == st[s].pc \in {"emit_replay", "live", "closed"}

\* the stream consulted the log and found events of its tenant, the smallest being min_seq
ConsultedLog(s) == ReplayDone(s) /\ st[s].needs_db /\ st[s].min_seq # 0

ResetFirstThenLiveOnly(s) ==
    /\ Len(st[s].emitted) >= 1
    /\ st[s].emitted[1] = ResetRecord
    /\ \A i \in 2..Len(st[s].emitted) :
          IsEvent(st[s].emitted[i]) /\ st[s].emitted[i].phase = "live"

\* C3 as stated: a cursor below the smallest retained sequence id gets events.reset
\* first and live events only
C3_ResetBelowMin ==
    \A s \in Streams :
        (ConsultedLog(s) /\ st[s].last_event_id < st[s].min_seq) => ResetFirstThenLiveOnly(s)

\* C3 amended: a cursor below min_sequence_id - 1, found when the log is consulted,
\* gets events.reset as first record and live events only after it
C3_ResetBelowMinMinusOne ==
    \A s \in Streams :
        (ConsultedLog(s) /\ st[s].last_event_id < st[s].min_seq - 1) => ResetFirstThenLiveOnly(s)

\* an expired cursor was answered with events.reset and a live event followed
C3_Witness ==
    \E s \in Streams :
        /\ ConsultedLog(s) /\ st[s].last_event_id < st[s].min_seq - 1
        /\ st[s].pc = "live" /\ Len(st[s].emitted) >= 2

\* C4: a stream opened for tenant T never emits an event of another tenant
C4_TenantIsolation ==
    \A s \in Streams : \A i \in 1..Len(st[s].emitted) :
        IsEvent(st[s].emitted[i]) => st[s].emitted[i].ev.org = st[s].org

\* a stream that emitted a live event has also taken another tenant's event from the shared channel
C4_Witness ==
    \E s \in Streams :
        /\ \E e \in Consumed(s) : e.org # st[s].org
        /\ \E i \in 1..Len(st[s].emitted) :
              IsEvent(st[s].emitted[i]) /\ st[s].emitted[i].phase = "live"

\* C5: persist before publish: an event that is being pushed or published, is in a
\* ring buffer, was published on the fabric or was emitted on a stream is in the log
C5_PersistBeforePublish ==
    /\ \A p \in Producers : prod[p].pc \in {"push", "publish"} => prod[p].ev \in log
    /\ \A o \in Orgs : SeqRange(buffer[o]) \subseteq log
    /\ SeqRange(fabric) \subseteq log
    /\ \A s \in Streams : \A i \in 1..Len(st[s].emitted) :
          IsEvent(st[s].emitted[i]) => st[s].emitted[i].ev \in log

\* an event is in the ring buffer and on the fabric and a subscriber emitted it live
C5_Witness ==
    \E s \in Streams : \E i \in 1..Len(st[s].emitted) :
        /\ IsEvent(st[s].emitted[i]) /\ st[s].emitted[i].phase = "live"
        /\ st[s].emitted[i].ev \in SeqRange(buffer[st[s].org])
        /\ st[s].emitted[i].ev \in SeqRange(fabric)

\* C6: when the commit fails the exception leaves broadcast_event and the event is
\* neither in the log, nor pushed to a ring buffer, nor published
C6_FailClosed ==
    \A r \in raised : r.at = "commit" =>
        /\ \A p \in Producers : prod[p].ev.seq # r.seq
        /\ \A e \in log : e.seq # r.seq
        /\ \A o \in Orgs : \A e \in SeqRange(buffer[o]) : e.seq # r.seq
        /\ \A e \in SeqRange(fabric) : e.seq # r.seq

\* a commit failed while another broadcast went through to the fabric
C6_Witness ==
    /\ \E r \in raised : r.at = "commit"
    /\ fabric # <<>>

Streaming(s) == st[s].pc \in {"subscribe", "replay_buffer", "replay_db", "emit_replay", "live"}

\* C7: the number of accepted, streaming SSE streams of a tenant never exceeds the cap
C7_SseCap ==
    \A o \in Orgs :
        Cardinality({s \in Streams : st[s].org = o /\ Streaming(s)}) <= MAX_CONNECTIONS_PER_ORG

WsAccepted(c) == conn[c].pc \in {"registering", "open"}

\* C8: the number of accepted WebSocket connections of a tenant never exceeds the cap
C8_WsCap ==
    \A o \in Orgs :
        Cardinality({c \in ConnIds : conn[c].org = o /\ WsAccepted(c)}) <= MAX_CONNECTIONS_PER_ORG

\* the match rules of the filter, as the claim words them
ClaimEntryMatches(e, sub) ==
    \/ sub.topic_type = "project" /\ Str(e.project_id) = sub.topic_id
    \/ sub.topic_type = "task" /\ Str(e.task_id) = sub.topic_id
    \/ sub.topic_type = "channel" /\ Str(e.channel_id) = sub.topic_id
    \/ sub.topic_type = "event_type" /\ StartsWith(e.type, sub.topic_id)

\* C9: with a non-empty filter every emitted event matches at least one entry;
\* with no filter every event passes the filter
C9_FilterExclusivity ==
    /\ \A s \in Streams : \A i \in 1..Len(st[s].emitted) :
          (IsEvent(st[s].emitted[i]) /\ st[s].subscriptions # NoFilter) =>
              \E n \in 1..Len(st[s].subscriptions) :
                  ClaimEntryMatches(st[s].emitted[i].ev, st[s].subscriptions[n])
    /\ \A t \in EventTemplates : MatchesSubscriptions(t.type, t, NoFilter)

\* a filtered stream emitted an event, in replay and live, and skipped one of its tenant
C9_Witness ==
    \E s \in Streams :
        /\ st[s].subscriptions # NoFilter
        /\ \E i, j \in 1..Len(st[s].emitted) :
              /\ IsEvent(st[s].emitted[i]) /\ st[s].emitted[i].phase = "replay"
              /\ IsEvent(st[s].emitted[j]) /\ st[s].emitted[j].phase = "live"
        /\ \E e \in Consumed(s) :
              /\ e.org = st[s].org
              /\ ~ \E n \in 1..Len(st[s].subscriptions) : ClaimEntryMatches(e, st[s].subscriptions[n])

\* the delivery rule, as the claim words it
ClaimEligible(subs, frame) ==
    frame.channel_id = None \/ subs = {} \/ frame.channel_id \in subs

\* C10: when a broadcast of a frame has finished, every connection that was registered
\* and eligible from its start to its end (its set held the channel id at the start,
\* or is still empty at the end) was sent the frame; every frame sent to a connection
\* was published for its tenant and the connection was eligible for it when sent
C10_Delivery ==
    /\ \A o \in Orgs : lst[o].done =>
          \A r \in lst[o].start :
              ( /\ Registered(r[1], o)
                /\ \/ lst[o].frame.channel_id = None
                   \/ lst[o].frame.channel_id \in r[2]
                   \/ conn[r[1]].subscribed_channels = {} )
              => \E g \in conn[r[1]].got : g.id = lst[o].frame.id
    /\ \A c \in ConnIds : \A g \in conn[c].got :
          \E k \in 1..Len(chat[conn[c].org]) :
              /\ chat[conn[c].org][k].id = g.id
              /\ ClaimEligible(g.subs, chat[conn[c].org][k])

\* the frame of the tenant's chat stream that a record of got stands for
FrameOf(c, g) ==
    CHOOSE f \in SeqRange(chat[conn[c].org]) : f.id = g.id

\* C11: a connection whose user is not a member of project P is never sent a frame of
\* P's project-scoped channel, whatever it has subscribed to, nothing included
C11_ProjectChannelAccess ==
    \A c \in ConnIds : \A g \in conn[c].got :
        LET ch == FrameOf(c, g).channel_id
        IN  (ch # None /\ ChannelRow(ch).type = "project")
                => UserOf(c) \in ProjectMembers(ChannelRow(ch).project_id)

\* the committed message row with this id
MsgRow(id) == CHOOSE m \in SeqRange(msgs) : m.id = id

\* C12: of two messages of one channel, the first persisted before the persistence
\* of the second began, every connection that is sent both frames is sent the
\* first one first
C12_ChannelOrder ==
    \A c \in ConnIds : \A ga, gb \in conn[c].got :
        LET a == MsgRow(ga.id)
            b == MsgRow(gb.id)
        IN  (a.channel_id = b.channel_id /\ a.id \in b.prior) => ga.n < gb.n

HasCall(type, id) == \E k \in 1..Len(calls) : calls[k].type = type /\ calls[k].message_id = id

\* C13: a handled WebSocket message frame that was accepted has its message persisted,
\* its payload with the sender's client_id published, and a message.created event
\* emitted; a rejected frame persists and publishes nothing
C13_WsMessageFlow ==
    \A p \in Posters : PosterKind(p) = "ws" =>
        /\ post[p].pc \in {"publish", "events", "done"} =>
              \E m \in SeqRange(msgs) : m.id = MessageId(p)
        /\ post[p].pc \in {"events", "done"} =>
              /\ \E f \in SeqRange(chat["o1"]) : f.id = MessageId(p)
              /\ post[p].payload.client_id = post[p].client_id
        /\ post[p].pc = "done" => HasCall("message.created", MessageId(p))
        /\ post[p].pc = "rejected" =>
              /\ ~ \E m \in SeqRange(msgs) : m.id = MessageId(p)
              /\ ~ \E f \in SeqRange(chat["o1"]) : f.id = MessageId(p)

\* C18: a finished post_to_mc call returned True only if one of its POSTs was
\* answered with a success status; otherwise it returned False and the message is
\* in the outbound buffer
C18_NoSilentLoss ==
    (relay.pc = "done" /\ relay.mode = "post") =>
        /\ relay.ret = TRUE => \E i \in 1..Len(relay.outcomes) : relay.outcomes[i] = "ok"
        /\ relay.ret # TRUE => (relay.ret = FALSE /\ relay.msg \in SeqRange(outbound))

C20_NoRetryAfter4xx ==
    [][\A m \in OutMsgs : m \in denied => nPosts'[m] = nPosts[m]]_vars

\* the event of the stream with sequence id q
SeenEvent(q) == CHOOSE e \in seen : e.sequence_id = q

\* the replies posted (post_to_mc called) for the event with sequence id q
RepliesTo(q) == {m \in OutMsgs : replies[m] # NoReply /\ replies[m].re = q}

\* C14: a message.created or command.invoked event whose sender_id is the bridge's
\* own identity (the sender id it posts under) is never forwarded to the runtime,
\* chat or command endpoint, and no reply is posted for it
C14_SelfLoopPrevention ==
    \A e \in seen :
        (e.type \in {"message.created", "command.invoked"} /\ e.sender_id = SenderId)
            => (e \notin gwCalls /\ RepliesTo(e.sequence_id) = {})

\* an event of the bridge itself was handled and dropped, after an event of another
\* sender was forwarded to the runtime and answered
C14_Witness ==
    /\ bridge.pc = "idle" /\ cursor = Str(2)
    /\ SeenEvent(Str(2)).sender_id = SenderId
    /\ SeenEvent(Str(2)).type = "message.created"
    /\ SeenEvent(Str(1)) \in gwCalls
    /\ RepliesTo(Str(1)) # {}

\* the restarted bridge has read everything its stream has to give: the stream is
\* live, no broadcast is in flight, nothing is left to publish, read or handle
CaughtUp ==
    /\ bridge.starts = 2 /\ bridge.pc = "idle"
    /\ st["s2"].pc = "live" /\ st["s2"].offset = Len(fabric)
    /\ bridge.read = Len(st["s2"].emitted)
    /\ prod["b2"].pc = "idle"

\* C15: after a restart with the persisted cursor c, once the bridge has caught up
\* with its stream, every event appended to the tenant's log while the bridge was
\* stopped has been delivered to the bridge, and the persisted cursor is above c
C15_CursorResume ==
    (CaughtUp /\ bridge.cursor_at_start # NoId /\ bridge.offline # {}) =>
        /\ \A q \in bridge.offline : \E e \in seen : e.sequence_id = Str(q)
        /\ ParseInt(cursor) > ParseInt(bridge.cursor_at_start)

\* C16: once the handler of an event that carries a sequence id has ended, however
\* it ended, the stored cursor of the agent is that sequence id
C16_CursorPersistence ==
    (bridge.pc = "idle" /\ bridge.ev.sequence_id # NoId) => cursor = bridge.ev.sequence_id

\* whether the hub accepted a reply to the event with sequence id q on channel ch,
\* with the runtime's response as content and the agent's identity as sender
Answered(q, ch) ==
    \E m \in accepted :
        /\ replies[m].re = q /\ replies[m].channel_id = ch
        /\ replies[m].content = <<"response">> /\ replies[m].sender_id = SenderId

\* C17: while the runtime and the hub are reachable, every message.created event
\* delivered to the bridge whose sender is not the agent leads to a message on the
\* same channel with the runtime's response, sent under the agent's identity
C17_RoundTrip ==
    \A q \in {Str(n) : n \in 1..MaxBridgeEvents} :
        (\E e \in seen : /\ e.sequence_id = q /\ e.type = "message.created"
                         /\ e.sender_id # SenderId)
            ~> Answered(q, "c1")

\* C21: an open connection is never silent (no line, event or heartbeat comment) for
\* longer than the heartbeat timeout: at the timeout the listener has dropped it
C21_HeartbeatTimeout ==
    sl.pc = "streaming" => sl.silent <= HEARTBEAT_TIMEOUT

\* min(2^(k-1), RECONNECT_MAX_SECONDS)
CappedPower(k) ==
    IF 2^(k - 1) < RECONNECT_MAX_SECONDS THEN 2^(k - 1) ELSE RECONNECT_MAX_SECONDS

\* C22 as stated: the delay before the reconnect that follows the k-th consecutive
\* failed connection is min(2^(k-1), 60), the delay after a clean end is the base,
\* and a running listener that sleeps connects again
C22_BackoffByFailures ==
    /\ [](sl.pc = "sleeping" =>
            sl.delay = IF sl.ended = "clean" THEN RECONNECT_BASE_SECONDS
                       ELSE CappedPower(sl.fails))
    /\ ((sl.running /\ sl.pc = "sleeping") ~> (sl.pc = "connecting" \/ ~ sl.running))

\* C22 amended: k counts the reconnects since the start or since the last clean
\* end, the reconnect that follows the clean end being the first
C22_BackoffByReconnects ==
    /\ [](sl.pc = "sleeping" =>
            /\ sl.delay = CappedPower(sl.k)
            /\ sl.ended = "clean" => sl.delay = RECONNECT_BASE_SECONDS)
    /\ ((sl.running /\ sl.pc = "sleeping") ~> (sl.pc = "connecting" \/ ~ sl.running))

\* the delay has reached the cap and stays there, and a clean end brought it back
\* to the base before
C22_Witness ==
    /\ sl.pc = "sleeping" /\ sl.ended = "error"
    /\ sl.delay = RECONNECT_MAX_SECONDS /\ sl.k = MaxReconnects

\* C30: the listener reports itself connected only while its connection streams
\* and after the first line was read on it; once the stream has ended, cleanly or
\* by an error, it reports itself not connected until the next connection streams
C30_ConnectionState ==
    sl.connected => (sl.pc = "streaming" /\ sl.lines >= 1)

\* C23: a live stream whose credential is revoked eventually ends and releases its
\* connection slot, with session.revoked as its last record unless its client went
\* away first
C23_StreamRevocation ==
    \A s \in RevStreams :
        (rv[s].pc = "live" /\ rv[s].cred.jti \in revoked)
            ~> (/\ rv[s].pc = "closed"
                /\ \/ rv[s].gone
                   \/ /\ rv[s].emitted # <<>>
                      /\ rv[s].emitted[Len(rv[s].emitted)] = "session.revoked")

\* C24: when close_for_revoked_jwt(tenant, jti) has returned, every connection that
\* was registered for the tenant with that credential id is out of the registry and
\* was sent close code 4001 with reason credential_revoked (unless its close raised),
\* and every connection with another credential id was sent no close and, while its
\* endpoint has not left by itself, is still registered
C24_CloseForRevokedJwt ==
    rc.pc = "done" =>
        \A c \in ConnIds :
            IF JtiOf(c) = rc.jti
            THEN c \in rc.registered =>
                    /\ ~ Registered(c, rc.org)
                    /\ c \notin rc.raised =>
                          conn[c].close = [code |-> 4001, reason |-> "credential_revoked"]
            ELSE /\ conn[c].close = NoClose
                 /\ (c \in rc.registered /\ conn[c].pc \in {"registering", "open"})
                        => Registered(c, rc.org)

\* two connections of the revoked credential were closed and removed, and a
\* connection of another credential is still open and registered
C24_Witness ==
    /\ rc.pc = "done" /\ rc.jti = "j1" /\ rc.raised = {}
    /\ rc.registered = {"w1", "w2", "w3"}
    /\ conn["w1"].close # NoClose /\ conn["w2"].close # NoClose
    /\ conn["w3"].pc = "open" /\ Registered("w3", "o1")

C26_PostAppendNonFatal ==
    /\ \A r \in raised : r.at \notin {"push", "publish"}
    /\ \A r \in raised : \A e \in log :
          (/\ r.at = "push" /\ r.seq = e.seq
           /\ \A p \in Producers : prod[p].pc = "idle" \/ prod[p].ev.seq # e.seq)
              => \E k \in 1..Len(fabric) : fabric[k].seq = e.seq


\* the channel a subscribed id names is a channel of the connection's tenant and, when
\* it is project-scoped, of a project the user is a member of
ValidSubscription(c, cid) ==
    /\ UuidOf(cid) \in ChannelIds
    /\ ChannelRow(UuidOf(cid)).org = conn[c].org
    /\ ChannelRow(UuidOf(cid)).type = "project"
           => UserOf(c) \in ProjectMembers(ChannelRow(UuidOf(cid)).project_id)

\* C27: after any sequence of subscribe frames the subscription set of a connection
\* holds only ids of channels of its tenant and, for project channels, of projects of
\* the user; the last subscribed reply carries the subscription set
C27_SubscribeValidation ==
    \A c \in ConnIds :
        /\ \A cid \in conn[c].subscribed_channels : ValidSubscription(c, cid)
        /\ conn[c].subscribed.sent => conn[c].subscribed.channel_ids = conn[c].subscribed_channels

\* frames with invalid ids were answered: one user holds the org-wide and the project
\* channel, the other user only the org-wide one, the other tenant's connection its own
C27_Witness ==
    /\ conn["w1"].subscribed = [sent |-> TRUE, channel_ids |-> {"x", "y"}]
    /\ conn["w2"].subscribed = [sent |-> TRUE, channel_ids |-> {"X"}]
    /\ conn["w3"].subscribed = [sent |-> TRUE, channel_ids |-> {}]


\* the command.invoked calls made for a message
CommandCalls(id) ==
    {k \in 1..Len(calls) : calls[k].type = "command.invoked" /\ calls[k].message_id = id}

\* what follows the first whitespace-delimited token of t and the whitespace after it
Remainder(t) == LStrip(SubSeq(t, TokenLen(t) + 1, Len(t)))

SessionEventTypes ==
    {"project.user_assigned", "project.user_unassigned", "sub_agent.created",
     "sub_agent.terminated"}

\* the payload of a session event names this agent: as the assigned user, or as the
\* agent of the sub-agent
IdentifiesAgent(e) ==
    IF e.type \in {"project.user_assigned", "project.user_unassigned"}
    THEN e.user_id \in {AgentName, SenderId}
    ELSE e.agent_id \in {AgentName, SenderId}

\* C29: the handler of a project.user_assigned, project.user_unassigned,
\* sub_agent.created or sub_agent.terminated event whose payload does not identify
\* this agent leaves the session mappings as they were
C29_SessionEventsAgentScoped ==
    [][ (/\ bridge.pc = "idle" /\ bridge'.pc = "save"
         /\ bridge'.ev.type \in SessionEventTypes
         /\ ~IdentifiesAgent(bridge'.ev))
            => sessions' = sessions ]_vars


StateStoreClosed(b) == \E i \in 1..Len(b.closed) : b.closed[i] = "state"

\* C31: stop first stops the listener, then attempts the flush of the outbound
\* buffer, then closes the health server, the HTTP client and the state store, in
\* this order; while the state store is closed no handler runs and no cursor is
\* written; a second call of stop changes nothing
C31_ShutdownOrder ==
    /\ [](relay.mode = "flush" => bridge.pc = "stopped")
    /\ [](bridge.closed # <<>> =>
            /\ bridge.pc = "stopped"
            /\ relay.mode = "flush" /\ relay.pc = "flushed"
            /\ bridge.closed \in {<<"health">>, <<"health", "client">>,
                                  <<"health", "client", "state">>})
    /\ [][ (StateStoreClosed(bridge) /\ StateStoreClosed(bridge'))
             => (cursor' = cursor /\ seen' = seen /\ gwCalls' = gwCalls /\ sessions' = sessions) ]_vars
    /\ [][ (bridge.stop_calls >= 1 /\ bridge'.stop_calls > bridge.stop_calls)
             => (/\ bridge' = [bridge EXCEPT !.stop_calls = bridge'.stop_calls]
                 /\ UNCHANGED <<relayVars, cursor, seen, gwCalls, replies, sessions>>) ]_vars

\* a stop with a buffered reply went through its three closes, and stop was called again
C31_Witness ==
    /\ bridge.closed = <<"health", "client", "state">>
    /\ bridge.stop_calls = 2
    /\ relay.mode = "flush" /\ relay.outcomes # <<>>
    /\ cursor # NoId


\* C32: when a broadcast in which a send failed has finished, every connection whose
\* send failed is gone from the registry, and every other connection that was
\* registered and eligible from the start of the broadcast to its end was sent the frame
C32_DeadConnections ==
    \A o \in Orgs :
        (lst[o].done /\ lst[o].failed # {}) =>
            /\ \A c \in lst[o].failed : ~ Registered(c, o)
            /\ \A r \in lst[o].start :
                  ( /\ r[1] \notin lst[o].failed
                    /\ Registered(r[1], o)
                    /\ \/ lst[o].frame.channel_id = None
                       \/ lst[o].frame.channel_id \in r[2]
                       \/ conn[r[1]].subscribed_channels = {} )
                  => \E g \in conn[r[1]].got : g.id = lst[o].frame.id

\* the committed events of a tenant whose broadcast_event is past its buffer step
BufferStepDone(o) ==
    {e \in OrgLog(o) : \A p \in Producers : ~ (prod[p].pc = "push" /\ prod[p].ev = e)}

\* C33: whenever _replay_from_buffer reports a hit for a cursor, it returns exactly
\* the tenant's events of the log above the cursor, in ascending order; checked
\* while no call has raised, and leaving aside the events a producer has
\* committed and not yet pushed
C33_BufferCoverage ==
    \A o \in Orgs : \A c \in Cursors :
        LET r == ReplayFromBuffer(buffer[o], c)
        IN  (raised = {} /\ ~ r.needs_db) =>
                r.events = SortBySeq({e \in BufferStepDone(o) : e.seq > c})

\* the messages a stream has taken from its subscription since it subscribed
TakenLive(s) == {fabric[k] : k \in (st[s].subscribed_at + 1)..st[s].offset}

\* C34: a stream in live phase with no filter emits every event of its tenant
\* that was published after it subscribed and that it has taken from the
\* subscription, whatever the interleaving of the broadcast_event calls (checked
\* for streams opened without a cursor, while no call has raised)
C34_LiveDelivery ==
    \A s \in Streams :
        ( /\ st[s].pc = "live" /\ ~ st[s].has_cursor /\ st[s].subscriptions = NoFilter
          /\ raised = {} )
        => \A e \in TakenLive(s) : e.org = st[s].org => e.seq \in EmittedSeqs(s)

\* C35: the SSE count of a tenant equals the number of its streams that were
\* accepted and have not released their slot (a stream between its INCR and the
\* DECR of the rejection is left aside), and a rejected stream got the error
\* record only, without a subscription
C35_SseSlotAccounting ==
    \A o \in Orgs :
        /\ (\A s \in Streams : st[s].org = o => st[s].pc # "over")
              => sseCount[o] = Cardinality({s \in Streams : st[s].org = o /\ Streaming(s)})
        /\ \A s \in Streams :
              st[s].pc = "rejected" => st[s].emitted = <<ErrorRecord>> /\ st[s].offset = 0

\* no connect is between its append and its INCR, no disconnect between its
\* removal and its DECR
WsSettled(o) ==
    /\ \A c \in ConnIds : conn[c].org = o => conn[c].pc \notin {"registering", "unregistering"}
    /\ lst[o].pc # "unregistering"

\* C36: once every connect and disconnect in progress has finished, the WebSocket
\* count of a tenant equals the number of connections registered for it
C36_WsSlotAccounting ==
    \A o \in Orgs : WsSettled(o) => wsCount[o] = Len(connections[o])

C38_NoReplyLoop ==
    \A m \in OutMsgs : m \in accepted => HubMessageCreated(m) \notin gwCalls

\* C39: a message whose flush attempt has ended without the hub accepting it is
\* still in the outbound buffer
C39_FlushKeepsFailed ==
    (relay.mode = "flush" /\ relay.pc = "flushed" /\ relay.msg # 0 /\ relay.msg \notin accepted)
        => relay.msg \in SeqRange(outbound)

\* C40: an agent resolving one channel again gets the same session key, and the
\* mapping of every resolution made so far is still there for its agent and
\* channel: no resolution of another agent removed or replaced it
C40_SessionResolution ==
    /\ \A x, y \in gwCalls :
          (x.agent_id = y.agent_id /\ x.channel_id = y.channel_id)
              => x.session_key = y.session_key
    /\ \A x \in gwCalls :
          \E r \in sessions :
              /\ r.agent_id = x.agent_id /\ r.channel_id = x.channel_id
              /\ r.session_key = x.session_key

====
